---- MODULE Spec2Model ----
(***************************************************************************)
(* FOA-Intelligence: the two source connectors (Grants.gov, NSF), the      *)
(* taggers, the tag aggregation of main.py and the record construction,    *)
(* as state machines.  One specification per subsystem:                    *)
(*   SpecSearch    connector.search(keyword, max_results)                  *)
(*   SpecFetch     connector.fetch_by_url(url)                             *)
(*   SpecTag       apply_tags(...) and the EmbeddingTagger                 *)
(*   SpecPipeline  process_single_url(url), process_search(...)            *)
(* Python values are tagged records: None, str (a sequence of characters), *)
(* int, dict (a function from keys to values).                             *)
(***************************************************************************)
EXTENDS Integers, Sequences, FiniteSets, TLC

VARIABLES
    \* ---- connector.search (grants_gov.py 163-211, nsf.py 123-168)
    source,          \* connector under call: "grants_gov" | "nsf" | "none"
    max_results,     \* argument of search
    avail,           \* number of items the upstream holds for the keyword
    results,         \* local list `results`
    offset,          \* local `offset`
    page_size,       \* local `page_size`
    search_pc,       \* "idle" | "while" | "await" | "sleep" | "return" | "done"
    requests,        \* page requests issued so far: <<[offset, rows]>>
    responses,       \* what each request got: [ok |-> FALSE] or [ok |-> TRUE, page]
    sleeps,          \* delays of the time.sleep calls, in order
    returned,        \* value returned by search
    \* ---- connector.fetch_by_url (grants_gov.py 60-161, nsf.py 78-121)
    url,             \* argument of fetch_by_url, a string
    ident,           \* opp_id (an int) or award_id (a string), None before
    attempt,         \* loop variable `attempt`
    fetch_pc,        \* "idle" | "attempt" | "await" | "fallback" |
                     \* "fallback_await" | "done"
    fetched,         \* outcome of fetch_by_url: [kind |-> "none"],
                     \* [kind |-> "returned", payload], [kind |-> "raised"]
    \* ---- the taggers and apply_tags (rule_based.py, embedding_tagger.py,
    \*      main.py 178-215)
    ontology,        \* the Ontology of the call: a list of OntologyTag
    title,           \* argument `title`
    description,     \* argument `description`
    use_embeddings,  \* argument `use_embeddings`
    rule_tags,       \* tags the rule-based strategy emitted in the call
    embed_tags,      \* tags the embedding strategy emitted in the call
    embed_outcome,   \* how embed_tagger.tag ended in the call, none when not run
    tags,            \* outcome of the call: the list returned, or raised
    embed_tagger,    \* an EmbeddingTagger instance, None before construction
    tag_calls,       \* tag() calls made on embed_tagger
    \* ---- process_single_url, process_search (main.py 82-175)
    pipe_pc,         \* "idle" | "single" | "search" | "done"
    item,            \* index of the raw result process_search works on
    records,         \* local list `records`
    processed,       \* outcome: the FOARecord or the list returned, or raised
    \* ---- connector.extract_fields called on its own (grants_gov.py 213-279,
    \*      nsf.py 170-224)
    extract_raw,     \* argument `raw_data`, None before the call
    extract_outcome, \* outcome of the call: the mapping returned, or raised
    \* ---- export_csv (exporters.py 40-72), called by main (main.py 318-319)
    flat_records     \* local list `flat_records`, empty before the export

io_vars == <<source, requests, responses, sleeps>>
search_vars == <<max_results, avail, results, offset, page_size, search_pc, returned>>
fetch_vars == <<url, ident, attempt, fetch_pc, fetched>>

tag_vars == <<ontology, title, description, use_embeddings, rule_tags, embed_tags,
              embed_outcome, tags, embed_tagger, tag_calls>>
pipe_vars == <<pipe_pc, item, records, processed>>
extract_vars == <<extract_raw, extract_outcome>>

vars == <<io_vars, search_vars, fetch_vars, tag_vars, pipe_vars, extract_vars, flat_records>>

\* ------------------------------------------------------------------ bounds
MaxRequested == 30      \* largest max_results tried
MaxAvail == 51          \* largest upstream result set tried
MaxTagCalls == 2        \* most tag() calls on one EmbeddingTagger
MaxProcessed == 3       \* largest max_results given to process_search

\* --------------------------------------------------------- program constants
PAGE_CAP == 25          \* min(max_results, 25)
MAX_RETRIES == 3
RATE_LIMIT_DELAY == 1   \* seconds

SOURCE_GRANTS_GOV == "grants_gov"
SOURCE_NSF == "nsf"
Sources == {SOURCE_GRANTS_GOV, SOURCE_NSF}

\* ------------------------------------------------------------------ helpers
Min(a, b) == IF a <= b THEN a ELSE b
Max(a, b) == IF a >= b THEN a ELSE b

\* the first k items of s (all of s when it has fewer)
Prefix(s, k) == [i \in 1..Min(k, Len(s)) |-> s[i]]

\* the slice that keeps everything
PySliceTo_NoTruncation(s, m) == s

\* sep.join(parts)
RECURSIVE Join(_, _)
Join(sep, parts) ==
    IF parts = <<>> THEN <<>>
    ELSE IF Len(parts) = 1 THEN parts[1]
    ELSE Join(sep, Prefix(parts, Len(parts) - 1)) \o sep \o parts[Len(parts)]

\* Python's s[:m]: the first m items, and for m < 0 all but the last -m.
PySliceTo(s, m) ==
    IF m >= 0 THEN Prefix(s, m) ELSE Prefix(s, Max(Len(s) + m, 0))

\* ------------------------------------------------------------ Python values
PyNone == [t |-> "none"]
PyStr(s) == [t |-> "str", v |-> s]
PyInt(n) == [t |-> "int", v |-> n]
PyDict(d) == [t |-> "dict", v |-> d]
\* an int beyond 2^31, held by its decimal digits
PyLong(digits) == [t |-> "long", v |-> digits]
\* a list or an array
PyList(s) == [t |-> "list", v |-> s]
EmptyDict == [k \in {} |-> PyNone]

\* bool(x)
Truthy(x) ==
    CASE x.t = "none" -> FALSE
      [] x.t = "str" -> x.v # <<>>
      [] x.t = "int" -> x.v # 0
      [] x.t = "long" -> TRUE
      [] x.t = "dict" -> DOMAIN x.v # {}

\* d.get(k, default) and d.get(k)
GetOr(d, k, default) == IF k \in DOMAIN d THEN d[k] ELSE default
Get(d, k) == GetOr(d, k, PyNone)

DigitChars == <<"0","1","2","3","4","5","6","7","8","9">>
IsDigit(c) == \E d \in 1..10 : DigitChars[d] = c
DigitValue(c) == (CHOOSE d \in 1..10 : DigitChars[d] = c) - 1

\* int(s) of a string of decimal digits
RECURSIVE ParseInt(_)
ParseInt(s) ==
    IF s = <<>> THEN 0
    ELSE 10 * ParseInt(SubSeq(s, 1, Len(s) - 1)) + DigitValue(s[Len(s)])

\* str(n) of an int n >= 0
RECURSIVE IntToStr(_)
IntToStr(n) ==
    IF n < 10 THEN <<DigitChars[n + 1]>>
    ELSE IntToStr(n \div 10) \o <<DigitChars[(n % 10) + 1]>>

\* str(x) of a value
StrOf(x) ==
    CASE x.t = "none" -> <<"N","o","n","e">>
      [] x.t = "str" -> x.v
      [] x.t = "int" -> IntToStr(x.v)
      [] x.t = "long" -> x.v

UpperChars == <<"A","B","C","D","E","F","G","H","I","J","K","L","M","N","O","P","Q","R","S","T","U","V","W","X","Y","Z">>
LowerChars == <<"a","b","c","d","e","f","g","h","i","j","k","l","m","n","o","p","q","r","s","t","u","v","w","x","y","z">>
\* c.lower() of one character
LowerChar(c) ==
    IF \E i \in 1..26 : UpperChars[i] = c
    THEN LowerChars[CHOOSE i \in 1..26 : UpperChars[i] = c]
    ELSE c

\* ------------------------------------------------------------ the upstream
\* Items are numbered 0 .. avail-1 in the order the upstream serves them.
\* Grants.gov offsets are 0-based, NSF offsets are 1-based.
FirstIndex(src, off) == IF src = SOURCE_NSF THEN off - 1 ELSE off

\* The page an upstream holding n items serves for (off, rows) in full.
FullPage(src, n, off, rows) ==
    LET start == FirstIndex(src, off)
        k == Max(0, Min(rows, n - start))
    IN  [i \in 1..k |-> start + i - 1]

\* What the upstream may answer: the full page, a page cut short (one item
\* less, or a single item), or one item more than was asked for.  An empty
\* answer (also a missing oppHits/award key, which reads as an empty list)
\* is served when nothing is left at the offset.
PageChoices(src, n, off, rows) ==
    LET full == FullPage(src, n, off, rows)
        over == FullPage(src, n, off, rows + 1)
    IN  {full, over, Prefix(full, Max(1, Len(full) - 1)), Prefix(full, 1)}

\* ------------------------------------------------------------------- search
SearchInit ==
    /\ source = "none"
    /\ max_results = 0
    /\ avail = 0
    /\ results = <<>>
    /\ offset = 0
    /\ page_size = 0
    /\ search_pc = "idle"
    /\ requests = <<>>
    /\ responses = <<>>
    /\ sleeps = <<>>
    /\ returned = <<>>

\* results = []; offset = 0 (1 for NSF); page_size = min(max_results, 25)
SearchCall(src, mr, n) ==
    /\ search_pc = "idle" /\ fetch_pc = "idle"
    /\ source' = src
    /\ max_results' = mr
    /\ avail' = n
    /\ results' = <<>>
    /\ offset' = IF src = SOURCE_NSF THEN 1 ELSE 0
    /\ page_size' = Min(mr, PAGE_CAP)
    /\ search_pc' = "while"
    /\ UNCHANGED <<requests, responses, sleeps, returned, fetch_vars, extract_vars, flat_records>>

\* the loop condition with <= for <
LoopCondition_OffByOne == Len(results) <= max_results

\* while len(results) < max_results
LoopCondition == Len(results) < max_results

\* a page request issued without the test of the loop condition
SearchRequest_Unconditional ==
    /\ search_pc = "while"
    /\ requests' = Append(requests, [offset |-> offset, rows |-> page_size])
    /\ search_pc' = "await"
    /\ UNCHANGED <<source, max_results, avail, results, offset, page_size,
                   responses, sleeps, returned, fetch_vars, tag_vars, pipe_vars, extract_vars, flat_records>>

\* the loop condition holds: issue the page request
SearchRequest ==
    /\ search_pc = "while"
    /\ LoopCondition
    /\ requests' = Append(requests, [offset |-> offset, rows |-> page_size])
    /\ search_pc' = "await"
    /\ UNCHANGED <<source, max_results, avail, results, offset, page_size,
                   responses, sleeps, returned, fetch_vars, tag_vars, pipe_vars, extract_vars, flat_records>>

\* the loop condition is false
SearchLoopExit ==
    /\ search_pc = "while"
    /\ ~LoopCondition
    /\ search_pc' = "return"
    /\ UNCHANGED <<source, max_results, avail, results, offset, page_size,
                   requests, responses, sleeps, returned, fetch_vars, tag_vars, pipe_vars, extract_vars, flat_records>>

\* a failed page request that is tried again
SearchRequestFails_Retried ==
    /\ search_pc = "await"
    /\ responses' = Append(responses, [ok |-> FALSE])
    /\ search_pc' = "while"
    /\ UNCHANGED <<source, max_results, avail, results, offset, page_size,
                   requests, sleeps, returned, fetch_vars, tag_vars, pipe_vars, extract_vars, flat_records>>

\* requests.RequestException: logged, break
SearchRequestFails ==
    /\ search_pc = "await"
    /\ responses' = Append(responses, [ok |-> FALSE])
    /\ search_pc' = "return"
    /\ UNCHANGED <<source, max_results, avail, results, offset, page_size,
                   requests, sleeps, returned, fetch_vars, tag_vars, pipe_vars, extract_vars, flat_records>>

\* an offset that advances by the number of items received
SearchResponse_AdvanceByLength(page) ==
    /\ search_pc = "await"
    /\ responses' = Append(responses, [ok |-> TRUE, page |-> page])
    /\ IF page = <<>>
       THEN /\ search_pc' = "return"
            /\ UNCHANGED <<results, offset>>
       ELSE /\ results' = results \o page
            /\ offset' = offset + Len(page)
            /\ search_pc' = "sleep"
    /\ UNCHANGED <<source, max_results, avail, page_size, requests, sleeps, returned,
                   fetch_vars, tag_vars, pipe_vars, extract_vars, flat_records>>

\* a response: an empty page breaks, any other page is appended and the
\* offset advances by page_size
SearchResponse(page) ==
    /\ search_pc = "await"
    /\ responses' = Append(responses, [ok |-> TRUE, page |-> page])
    /\ IF page = <<>>
       THEN /\ search_pc' = "return"
            /\ UNCHANGED <<results, offset>>
       ELSE /\ results' = results \o page
            /\ offset' = offset + page_size
            /\ search_pc' = "sleep"
    /\ UNCHANGED <<source, max_results, avail, page_size, requests, sleeps, returned,
                   fetch_vars, tag_vars, pipe_vars, extract_vars, flat_records>>

\* a loop that goes on to the next page without the delay
SearchSleep_Skipped ==
    /\ search_pc = "sleep"
    /\ search_pc' = "while"
    /\ UNCHANGED <<source, max_results, avail, results, offset, page_size, requests,
                   responses, sleeps, returned, fetch_vars, tag_vars, pipe_vars,
                   extract_vars, flat_records>>

\* time.sleep(RATE_LIMIT_DELAY)
SearchSleep ==
    /\ search_pc = "sleep"
    /\ sleeps' = Append(sleeps, RATE_LIMIT_DELAY)
    /\ search_pc' = "while"
    /\ UNCHANGED <<source, max_results, avail, results, offset, page_size,
                   requests, responses, returned, fetch_vars, tag_vars, pipe_vars, extract_vars, flat_records>>

\* return results[:max_results]
SearchReturn ==
    /\ search_pc = "return"
    /\ returned' = PySliceTo(results, max_results)
    /\ search_pc' = "done"
    /\ UNCHANGED <<source, max_results, avail, results, offset, page_size,
                   requests, responses, sleeps, fetch_vars, tag_vars, pipe_vars, extract_vars, flat_records>>

\* ------------------------------------------------------- URL patterns (re)
SetMin(S) == CHOOSE x \in S : \A y \in S : x <= y
SetMax(S) == CHOOSE x \in S : \A y \in S : x >= y

\* the literal lit occurs in s at position i
MatchAt(s, i, lit) ==
    /\ i + Len(lit) - 1 <= Len(s)
    /\ \A j \in 1..Len(lit) : s[i + j - 1] = lit[j]

\* the same under re.IGNORECASE
MatchAtIgnoreCase(s, i, lit) ==
    /\ i + Len(lit) - 1 <= Len(s)
    /\ \A j \in 1..Len(lit) : LowerChar(s[i + j - 1]) = LowerChar(lit[j])

\* the last position of the run of digits that starts at i (\d+ is greedy)
DigitRunEnd(s, i) ==
    CHOOSE e \in (i - 1)..Len(s) :
        /\ \A j \in i..e : IsDigit(s[j])
        /\ e = Len(s) \/ ~IsDigit(s[e + 1])

\* re.search(lit + r"(\d+)", s): group(1) of the leftmost match, or None
SearchLiteralDigits(s, lit, ignorecase) ==
    LET n == Len(lit)
        P == {i \in 1..Len(s) :
                 /\ IF ignorecase THEN MatchAtIgnoreCase(s, i, lit) ELSE MatchAt(s, i, lit)
                 /\ i + n <= Len(s)
                 /\ IsDigit(s[i + n])}
    IN  IF P = {} THEN PyNone
        ELSE PyStr(SubSeq(s, SetMin(P) + n, DigitRunEnd(s, SetMin(P) + n)))

\* re.search(head + r".*[?&]" + key + r"(\d+)", s): the greedy .* takes the
\* last "?key" or "&key" that digits follow
SearchGreedyQuery(s, head, key) ==
    LET k == Len(key)
        Q(i) == {q \in (i + Len(head))..Len(s) :
                    /\ s[q] \in {"?", "&"}
                    /\ MatchAt(s, q + 1, key)
                    /\ q + k + 1 <= Len(s)
                    /\ IsDigit(s[q + k + 1])}
        P == {i \in 1..Len(s) : MatchAt(s, i, head) /\ Q(i) # {}}
    IN  IF P = {} THEN PyNone
        ELSE LET q == SetMax(Q(SetMin(P)))
             IN  PyStr(SubSeq(s, q + k + 1, DigitRunEnd(s, q + k + 1)))

\* re.search(head + r".*?/(\d{7})", s): the lazy .*? stops at the first "/"
\* that seven digits follow
SearchLazySevenDigits(s, head) ==
    LET R(i) == {r \in (i + Len(head))..Len(s) :
                    /\ s[r] = "/"
                    /\ r + 7 <= Len(s)
                    /\ \A j \in 1..7 : IsDigit(s[r + j])}
        P == {i \in 1..Len(s) : MatchAt(s, i, head) /\ R(i) # {}}
    IN  IF P = {} THEN PyNone
        ELSE LET r == SetMin(R(SetMin(P)))
             IN  PyStr(SubSeq(s, r + 1, r + 7))

\* the three patterns of _extract_opportunity_id_from_url, in order
\* "grants.gov/search-results-detail/"
GrantsPattern1(u) == SearchLiteralDigits(u, <<"g","r","a","n","t","s",".","g","o","v","/","s","e","a","r","c","h","-","r","e","s","u","l","t","s","-","d","e","t","a","i","l","/">>, FALSE)
\* "grants.gov/view-opportunity/html/?oppId="
GrantsPattern2(u) == SearchLiteralDigits(u, <<"g","r","a","n","t","s",".","g","o","v","/","v","i","e","w","-","o","p","p","o","r","t","u","n","i","t","y","/","h","t","m","l","/","?","o","p","p","I","d","=">>, FALSE)
\* "grants.gov", "oppId="
GrantsPattern3(u) == SearchGreedyQuery(u, <<"g","r","a","n","t","s",".","g","o","v">>, <<"o","p","p","I","d","=">>)

\* GrantsGovIngestor._extract_opportunity_id_from_url: int(group(1)) of the
\* first pattern that matches, or None
ExtractOpportunityId(u) ==
    IF GrantsPattern1(u) # PyNone THEN PyInt(ParseInt(GrantsPattern1(u).v))
    ELSE IF GrantsPattern2(u) # PyNone THEN PyInt(ParseInt(GrantsPattern2(u).v))
    ELSE IF GrantsPattern3(u) # PyNone THEN PyInt(ParseInt(GrantsPattern3(u).v))
    ELSE PyNone

\* the two patterns of _extract_award_id_from_url, in order
\* "AWD_ID="
NsfPattern1(u) == SearchLiteralDigits(u, <<"A","W","D","_","I","D","=">>, TRUE)
\* "nsf.gov/"
NsfPattern2(u) == SearchLazySevenDigits(u, <<"n","s","f",".","g","o","v","/">>)

\* NSFIngestor._extract_award_id_from_url: group(1), a string, or None
ExtractAwardId(u) == IF NsfPattern1(u) # PyNone THEN NsfPattern1(u) ELSE NsfPattern2(u)

ExtractId(src, u) == IF src = SOURCE_NSF THEN ExtractAwardId(u) ELSE ExtractOpportunityId(u)

\* "Could not extract opportunity ID"
ERR_NO_OPPORTUNITY_ID == <<"C","o","u","l","d"," ","n","o","t"," ","e","x","t","r","a","c","t"," ","o","p","p","o","r","t","u","n","i","t","y"," ","I","D">>
\* "Could not extract award ID"
ERR_NO_AWARD_ID == <<"C","o","u","l","d"," ","n","o","t"," ","e","x","t","r","a","c","t"," ","a","w","a","r","d"," ","I","D">>
\* "Could not fetch opportunity "
ERR_COULD_NOT_FETCH == <<"C","o","u","l","d"," ","n","o","t"," ","f","e","t","c","h"," ","o","p","p","o","r","t","u","n","i","t","y"," ">>

\* the error payload without its error marker
ResolutionError_NoMarker(src, u) == [source_url |-> PyStr(u)]

\* {"source_url": url, "error": "Could not extract ... ID"}
ResolutionError(src, u) ==
    [source_url |-> PyStr(u),
     error |-> PyStr(IF src = SOURCE_NSF THEN ERR_NO_AWARD_ID ELSE ERR_NO_OPPORTUNITY_ID)]

\* {"error": f"Could not fetch opportunity {opp_id}"}
FetchError(id) == [error |-> PyStr(ERR_COULD_NOT_FETCH \o StrOf(id))]

Returned(p) == [kind |-> "returned", payload |-> p]
Raised == [kind |-> "raised"]
NoOutcome == [kind |-> "none"]

\* ------------------------------------------------- what the upstream answers
TITLES ==
    \* "Grant A"
    [ A |-> <<"G","r","a","n","t"," ","A">>,
      \* "AI Grant B"
      B |-> <<"A","I"," ","G","r","a","n","t"," ","B">> ]

\* `inner` of a fetchOpportunity response for opportunity id
DirectInners(id) ==
    { [opportunity |-> PyDict([oppId |-> id, opportunityTitle |-> PyStr(TITLES.A)])],
      [title |-> PyStr(TITLES.A), id |-> id],
      [opportunity |-> PyDict([oppId |-> id]), title |-> PyStr(TITLES.A)],
      [opportunity |-> PyDict(EmptyDict)],
      [opportunity |-> PyNone, title |-> PyStr(<<>>)],
      \* "not found"
      [title |-> PyStr(<<>>), message |-> PyStr(<<"n","o","t"," ","f","o","u","n","d">>)],
      [synopsis |-> PyDict([synopsisDesc |-> PyStr(TITLES.B)])],
      EmptyDict }

\* `hits` of a search2 response to the keyword str(id)
HitLists(id) ==
    LET exact == [id |-> id, title |-> PyStr(TITLES.A)]
        exactStr == [id |-> PyStr(StrOf(id)), title |-> PyStr(TITLES.B)]
        other == [id |-> PyInt(id.v + 1), title |-> PyStr(TITLES.B)]
        padded == [id |-> PyStr(<<"0">> \o StrOf(id)), title |-> PyStr(TITLES.B)]
        noId == [title |-> PyStr(TITLES.A)]
    IN  { <<>>, <<exact>>, <<other, exact>>, <<other, exactStr, exact>>,
          <<other, padded>>, <<noId, other>>, <<padded>> }

\* `awards` of an awards.json response for award id
AwardLists(id) ==
    LET award == [id |-> id, title |-> PyStr(TITLES.A)]
        other == [id |-> PyStr(<<"9">>), title |-> PyStr(TITLES.B)]
    IN  { <<>>, <<award>>, <<other, award>> }

\* ------------------------------------------------------------ fetch_by_url
FetchInit ==
    /\ url = <<>>
    /\ ident = PyNone
    /\ attempt = 0
    /\ fetch_pc = "idle"
    /\ fetched = NoOutcome

\* `if opp_id:` / `if award_id:`
IdFound(id) == Truthy(id)

\* fetch_by_url(url): extract the id; without one return the error payload
FetchByUrl(src, u) ==
    /\ fetch_pc = "idle" /\ search_pc = "idle"
    /\ source' = src
    /\ url' = u
    /\ ident' = ExtractId(src, u)
    /\ attempt' = 0
    /\ IF IdFound(ident')
       THEN fetch_pc' = "attempt" /\ fetched' = NoOutcome
       ELSE fetch_pc' = "done" /\ fetched' = Returned(ResolutionError(src, u))
    /\ UNCHANGED <<requests, responses, sleeps, search_vars, extract_vars, flat_records>>

\* for attempt in range(MAX_RETRIES): requests.post(GRANTS_GOV_FETCH_URL) or
\* requests.get(NSF_AWARDS_URL)
FetchAttempt ==
    /\ fetch_pc = "attempt"
    /\ attempt < MAX_RETRIES
    /\ requests' = Append(requests,
          [endpoint |-> IF source = SOURCE_NSF THEN "awards" ELSE "fetchOpportunity",
           key |-> ident])
    /\ fetch_pc' = "await"
    /\ UNCHANGED <<source, responses, sleeps, search_vars, url, ident, attempt, fetched, tag_vars, pipe_vars, extract_vars, flat_records>>

\* the backoff with a constant delay
Backoff_Constant(a) == RATE_LIMIT_DELAY

\* time.sleep(RATE_LIMIT_DELAY * (attempt + 1))
Backoff(a) == RATE_LIMIT_DELAY * (a + 1)

\* if attempt < MAX_RETRIES - 1
MoreAttempts(a) == a < MAX_RETRIES - 1

\* Grants.gov, except requests.RequestException: sleep and retry, and after
\* the last attempt break to the search fallback
GrantsFetchFails ==
    /\ fetch_pc = "await" /\ source = SOURCE_GRANTS_GOV
    /\ responses' = Append(responses, [ok |-> FALSE])
    /\ IF MoreAttempts(attempt)
       THEN /\ sleeps' = Append(sleeps, Backoff(attempt))
            /\ attempt' = attempt + 1
            /\ fetch_pc' = "attempt"
       ELSE /\ fetch_pc' = "fallback"
            /\ UNCHANGED <<sleeps, attempt>>
    /\ UNCHANGED <<source, requests, search_vars, url, ident, fetched, tag_vars, pipe_vars, extract_vars, flat_records>>

\* if inner.get("opportunity") or inner.get("title")
HasData(inner) == Truthy(Get(inner, "opportunity")) \/ Truthy(Get(inner, "title"))

\* a response without data taken as one more failed attempt of the loop
GrantsFetchResponse_Retrying(inner) ==
    /\ fetch_pc = "await" /\ source = SOURCE_GRANTS_GOV
    /\ responses' = Append(responses, [ok |-> TRUE, inner |-> inner])
    /\ IF HasData(inner)
       THEN /\ fetched' = Returned(inner)
            /\ fetch_pc' = "done"
            /\ UNCHANGED attempt
       ELSE /\ attempt' = attempt + 1
            /\ fetch_pc' = IF attempt + 1 < MAX_RETRIES THEN "attempt" ELSE "fallback"
            /\ UNCHANGED fetched
    /\ UNCHANGED <<source, requests, sleeps, search_vars, url, ident, tag_vars, pipe_vars, extract_vars, flat_records>>

\* Grants.gov, a response: return inner when it has data, else break to the
\* search fallback
GrantsFetchResponse(inner) ==
    /\ fetch_pc = "await" /\ source = SOURCE_GRANTS_GOV
    /\ responses' = Append(responses, [ok |-> TRUE, inner |-> inner])
    /\ IF HasData(inner)
       THEN /\ fetched' = Returned(inner)
            /\ fetch_pc' = "done"
            /\ UNCHANGED attempt
       ELSE IF Truthy(Get(inner, "message")) \/ ~Truthy(Get(inner, "opportunity"))
       THEN /\ fetch_pc' = "fallback"
            /\ UNCHANGED <<fetched, attempt>>
       ELSE /\ attempt' = attempt + 1
            /\ fetch_pc' = IF attempt + 1 < MAX_RETRIES THEN "attempt" ELSE "fallback"
            /\ UNCHANGED fetched
    /\ UNCHANGED <<source, requests, sleeps, search_vars, url, ident, tag_vars, pipe_vars, extract_vars, flat_records>>

\* _search_by_id_fallback: requests.post(GRANTS_GOV_SEARCH_URL) with
\* keyword str(opp_id), rows 5, offset 0
FallbackRequest ==
    /\ fetch_pc = "fallback"
    /\ requests' = Append(requests, [endpoint |-> "search2", key |-> PyStr(StrOf(ident))])
    /\ fetch_pc' = "fallback_await"
    /\ UNCHANGED <<source, responses, sleeps, search_vars, url, ident, attempt, fetched, tag_vars, pipe_vars, extract_vars, flat_records>>

\* except requests.RequestException: logged, the error payload is returned
FallbackFails ==
    /\ fetch_pc = "fallback_await"
    /\ responses' = Append(responses, [ok |-> FALSE])
    /\ fetched' = Returned(FetchError(ident))
    /\ fetch_pc' = "done"
    /\ UNCHANGED <<source, requests, sleeps, search_vars, url, ident, attempt, tag_vars, pipe_vars, extract_vars, flat_records>>

\* the choice of the first hit whatever its id
SelectHit_First(hits, id) == IF hits # <<>> THEN hits[1] ELSE FetchError(id)

\* the first hit with str(hit.get("id")) == str(opp_id), else hits[0], else
\* the error payload
SelectHit(hits, id) ==
    LET M == {i \in 1..Len(hits) : StrOf(Get(hits[i], "id")) = StrOf(id)}
    IN  IF M # {} THEN hits[SetMin(M)]
        ELSE IF hits # <<>> THEN hits[1]
        ELSE FetchError(id)

\* a search2 response
FallbackResponse(hits) ==
    /\ fetch_pc = "fallback_await"
    /\ responses' = Append(responses, [ok |-> TRUE, hits |-> hits])
    /\ fetched' = Returned(SelectHit(hits, ident))
    /\ fetch_pc' = "done"
    /\ UNCHANGED <<source, requests, sleeps, search_vars, url, ident, attempt, tag_vars, pipe_vars, extract_vars, flat_records>>

\* the last failure turned into an empty payload
NsfLastFailure_Swallowed == Returned(EmptyDict)

\* raise
NsfLastFailure == Raised

\* NSF, except requests.RequestException: sleep and retry, and on the last
\* attempt re-raise
NsfFetchFails ==
    /\ fetch_pc = "await" /\ source = SOURCE_NSF
    /\ responses' = Append(responses, [ok |-> FALSE])
    /\ IF MoreAttempts(attempt)
       THEN /\ sleeps' = Append(sleeps, Backoff(attempt))
            /\ attempt' = attempt + 1
            /\ fetch_pc' = "attempt"
            /\ UNCHANGED fetched
       ELSE /\ fetched' = NsfLastFailure
            /\ fetch_pc' = "done"
            /\ UNCHANGED <<sleeps, attempt>>
    /\ UNCHANGED <<source, requests, search_vars, url, ident, tag_vars, pipe_vars, extract_vars, flat_records>>

\* NSF, a response: awards[0], or {} when the list is empty
NsfFetchResponse(awards) ==
    /\ fetch_pc = "await" /\ source = SOURCE_NSF
    /\ responses' = Append(responses, [ok |-> TRUE, awards |-> awards])
    /\ fetched' = Returned(IF awards # <<>> THEN awards[1] ELSE EmptyDict)
    /\ fetch_pc' = "done"
    /\ UNCHANGED <<source, requests, sleeps, search_vars, url, ident, attempt, tag_vars, pipe_vars, extract_vars, flat_records>>

\* URLs given to fetch_by_url
URLS ==
    \* "https://www.grants.gov/search-results-detail/123456"
    [ GRANTS_DETAIL |-> <<"h","t","t","p","s",":","/","/","w","w","w",".","g","r","a","n","t","s",".","g","o","v","/","s","e","a","r","c","h","-","r","e","s","u","l","t","s","-","d","e","t","a","i","l","/","1","2","3","4","5","6">>,
      \* "https://grants.gov/search-results-detail/0"
      GRANTS_ZERO |-> <<"h","t","t","p","s",":","/","/","g","r","a","n","t","s",".","g","o","v","/","s","e","a","r","c","h","-","r","e","s","u","l","t","s","-","d","e","t","a","i","l","/","0">>,
      \* "https://www.grants.gov/search-results-detail/007"
      GRANTS_PADDED |-> <<"h","t","t","p","s",":","/","/","w","w","w",".","g","r","a","n","t","s",".","g","o","v","/","s","e","a","r","c","h","-","r","e","s","u","l","t","s","-","d","e","t","a","i","l","/","0","0","7">>,
      \* "https://www.grants.gov/view-opportunity/html/?oppId=42"
      GRANTS_VIEW |-> <<"h","t","t","p","s",":","/","/","w","w","w",".","g","r","a","n","t","s",".","g","o","v","/","v","i","e","w","-","o","p","p","o","r","t","u","n","i","t","y","/","h","t","m","l","/","?","o","p","p","I","d","=","4","2">>,
      \* "https://www.grants.gov/opp?x=1&oppId=7"
      GRANTS_QUERY |-> <<"h","t","t","p","s",":","/","/","w","w","w",".","g","r","a","n","t","s",".","g","o","v","/","o","p","p","?","x","=","1","&","o","p","p","I","d","=","7">>,
      \* "https://www.grants.gov/search-results-detail/12?oppId=34"
      GRANTS_TWO_PATTERNS |-> <<"h","t","t","p","s",":","/","/","w","w","w",".","g","r","a","n","t","s",".","g","o","v","/","s","e","a","r","c","h","-","r","e","s","u","l","t","s","-","d","e","t","a","i","l","/","1","2","?","o","p","p","I","d","=","3","4">>,
      \* "https://www.grants.gov/a?oppId=5&oppId=6"
      GRANTS_TWO_QUERIES |-> <<"h","t","t","p","s",":","/","/","w","w","w",".","g","r","a","n","t","s",".","g","o","v","/","a","?","o","p","p","I","d","=","5","&","o","p","p","I","d","=","6">>,
      \* "https://www.grants.gov/search-results-detail/abc"
      GRANTS_NO_DIGITS |-> <<"h","t","t","p","s",":","/","/","w","w","w",".","g","r","a","n","t","s",".","g","o","v","/","s","e","a","r","c","h","-","r","e","s","u","l","t","s","-","d","e","t","a","i","l","/","a","b","c">>,
      \* "https://example.org/search-results-detail/123456"
      OTHER_HOST |-> <<"h","t","t","p","s",":","/","/","e","x","a","m","p","l","e",".","o","r","g","/","s","e","a","r","c","h","-","r","e","s","u","l","t","s","-","d","e","t","a","i","l","/","1","2","3","4","5","6">>,
      \* "https://www.nsf.gov/awardsearch/showAward?AWD_ID=2345678"
      NSF_AWARD |-> <<"h","t","t","p","s",":","/","/","w","w","w",".","n","s","f",".","g","o","v","/","a","w","a","r","d","s","e","a","r","c","h","/","s","h","o","w","A","w","a","r","d","?","A","W","D","_","I","D","=","2","3","4","5","6","7","8">>,
      \* "https://nsf.gov/awardsearch/showAward?awd_id=0&HistoricalAwards=false"
      NSF_LOWERCASE |-> <<"h","t","t","p","s",":","/","/","n","s","f",".","g","o","v","/","a","w","a","r","d","s","e","a","r","c","h","/","s","h","o","w","A","w","a","r","d","?","a","w","d","_","i","d","=","0","&","H","i","s","t","o","r","i","c","a","l","A","w","a","r","d","s","=","f","a","l","s","e">>,
      \* "https://www.nsf.gov/awards/1234567"
      NSF_PATH |-> <<"h","t","t","p","s",":","/","/","w","w","w",".","n","s","f",".","g","o","v","/","a","w","a","r","d","s","/","1","2","3","4","5","6","7">>,
      \* "https://www.nsf.gov/awards/12345678"
      NSF_PATH_LONG |-> <<"h","t","t","p","s",":","/","/","w","w","w",".","n","s","f",".","g","o","v","/","a","w","a","r","d","s","/","1","2","3","4","5","6","7","8">>,
      \* "https://www.nsf.gov/awards/123456"
      NSF_PATH_SHORT |-> <<"h","t","t","p","s",":","/","/","w","w","w",".","n","s","f",".","g","o","v","/","a","w","a","r","d","s","/","1","2","3","4","5","6">>,
      \* "https://www.nsf.gov/1234567"
      NSF_NO_SEGMENT |-> <<"h","t","t","p","s",":","/","/","w","w","w",".","n","s","f",".","g","o","v","/","1","2","3","4","5","6","7">>,
      \* "https://www.nsf.gov/awards/7654321?AWD_ID=99"
      NSF_TWO_PATTERNS |-> <<"h","t","t","p","s",":","/","/","w","w","w",".","n","s","f",".","g","o","v","/","a","w","a","r","d","s","/","7","6","5","4","3","2","1","?","A","W","D","_","I","D","=","9","9">> ]

UrlChoices == {URLS[k] : k \in DOMAIN URLS} \cup {<<>>}

FetchNext ==
    \/ \E src \in Sources, u \in UrlChoices :
           FetchByUrl(src, u) /\ UNCHANGED <<tag_vars, pipe_vars>>
    \/ FetchAttempt
    \/ GrantsFetchFails
    \/ (fetch_pc = "await" /\ source = SOURCE_GRANTS_GOV
        /\ \E inner \in DirectInners(ident) : GrantsFetchResponse(inner))
    \/ FallbackRequest
    \/ FallbackFails
    \/ (fetch_pc = "fallback_await"
        /\ \E hits \in HitLists(ident) : FallbackResponse(hits))
    \/ NsfFetchFails
    \/ (fetch_pc = "await" /\ source = SOURCE_NSF
        /\ \E awards \in AwardLists(ident) : NsfFetchResponse(awards))

MaxResultsChoices == (-1 .. 3) \cup {10, PAGE_CAP - 1, PAGE_CAP, PAGE_CAP + 1, MaxRequested}
AvailChoices == (0 .. 4) \cup {10, PAGE_CAP, PAGE_CAP + 1, MaxRequested - 1, MaxRequested, MaxAvail}

SearchNext ==
    \/ \E src \in Sources, mr \in MaxResultsChoices, n \in AvailChoices :
           SearchCall(src, mr, n) /\ UNCHANGED <<tag_vars, pipe_vars>>
    \/ SearchRequest
    \/ SearchLoopExit
    \/ SearchRequestFails
    \/ \E page \in PageChoices(source, avail, offset, page_size) : SearchResponse(page)
    \/ SearchSleep
    \/ SearchReturn

\* ------------------------------------------------------------ the taggers
\* a float, kept exact as the fraction n / d (d > 0)
Float(n, d) == [n |-> n, d |-> d]
\* a <= b
Leq(a, b) == a.n * b.d <= b.n * a.d

TITLE_WEIGHT == 2
\* a higher minimum score
MIN_CONFIDENCE_Half == Float(1, 2)
MIN_CONFIDENCE == Float(15, 100)
EMBEDDING_SIMILARITY_THRESHOLD == Float(35, 100)
MAX_TAGS_PER_FOA == 10

\* str.lower()
Lower(s) == [i \in DOMAIN s |-> LowerChar(s[i])]

\* `term in text`
Contains(text, term) == \E i \in 1..(Len(text) + 1) : MatchAt(text, i, term)

\* re.search(rf"\b{re.escape(term)}\b", text, re.IGNORECASE): \b is a place
\* with a word character ([A-Za-z0-9_]) on exactly one side
SearchWord(text, term) ==
    LET IsWord(p) ==
            /\ p \in DOMAIN text
            /\ \/ IsDigit(text[p])
               \/ text[p] = "_"
               \/ \E k \in 1..26 : LowerChars[k] = LowerChar(text[p])
        Boundary(p) == IsWord(p - 1) # IsWord(p)
    IN  \E i \in 1..(Len(text) + 1) :
            /\ Boundary(i)
            /\ MatchAtIgnoreCase(text, i, term)
            /\ Boundary(i + Len(term))

\* a match of every term as a plain substring
TermInText_Substring(term, text) == Contains(text, term)

\* RuleBasedTagger._term_in_text
TermInText(term, text) ==
    IF Len(term) <= 3 THEN SearchWord(text, term) ELSE Contains(text, term)

\* OntologyTag.full_path: f"{category}/{name}"
FullPath(t) == t.category \o <<"/">> \o t.name

\* OntologyTag.all_terms: [name.replace("_", " ")] + synonyms
AllTerms(t) ==
    <<[i \in DOMAIN t.name |-> IF t.name[i] = "_" THEN " " ELSE t.name[i]]>> \o t.synonyms

\* a confidence that leaves the title weight out
ComputeConfidence_BodyOnly(ontology_tag, title_lower, combined_text) ==
    LET terms == AllTerms(ontology_tag)
    IN  Float(Cardinality({k \in DOMAIN terms : TermInText(Lower(terms[k]), combined_text)}),
              (TITLE_WEIGHT + 1) * Len(terms))

\* RuleBasedTagger._compute_confidence
ComputeConfidence(ontology_tag, title_lower, combined_text) ==
    LET terms == AllTerms(ontology_tag)
        Score(term) ==
            (IF TermInText(Lower(term), title_lower) THEN TITLE_WEIGHT ELSE 0)
            + (IF TermInText(Lower(term), combined_text) THEN 1 ELSE 0)
        RECURSIVE total_score(_)
        total_score(k) == IF k = 0 THEN 0 ELSE total_score(k - 1) + Score(terms[k])
        max_possible == (TITLE_WEIGHT + 1) * Len(terms)
    IN  IF terms = <<>> THEN Float(0, 1)
        ELSE IF max_possible > 0 THEN Float(total_score(Len(terms)), max_possible)
        ELSE Float(0, 1)

\* SemanticTag accepting any confidence
ConfidenceValid_Unchecked(c) == TRUE

\* SemanticTag.confidence: float = Field(ge=0.0, le=1.0)
ConfidenceValid(c) == Leq(Float(0, 1), c) /\ Leq(c, Float(1, 1))

\* SemanticTag(tag=..., confidence=..., method=...)
SemanticTag(tag, confidence, method) ==
    [tag |-> tag, confidence |-> confidence, method |-> method]

\* a sort that leaves the list as it is
SortByConfidence_Unsorted(s) == s

\* tags.sort(key=lambda t: t.confidence, reverse=True): stable, so tags of
\* equal confidence keep their order
RECURSIVE SortByConfidence(_)
SortByConfidence(s) ==
    IF s = <<>> THEN <<>>
    ELSE LET rest == SortByConfidence(Prefix(s, Len(s) - 1))
             last == s[Len(s)]
             k == Cardinality({i \in DOMAIN rest : Leq(last.confidence, rest[i].confidence)})
         IN  Prefix(rest, k) \o <<last>> \o [i \in 1..(Len(rest) - k) |-> rest[k + i]]

\* the list a tagger returns: constructing a SemanticTag whose confidence is
\* out of range raises (pydantic ValidationError)
TaggerOutcome(candidates) ==
    IF \A i \in DOMAIN candidates : ConfidenceValid(candidates[i].confidence)
    THEN Returned(SortByConfidence(candidates))
    ELSE Raised

\* a tagger whose combined text is the description alone
RuleBasedTaggerTag_DescriptionOnly(ont, t, d) ==
    LET combined_text == Lower(StrOf(d))
        title_lower == Lower(t.v)
        confidence == [i \in DOMAIN ont |->
                          ComputeConfidence(ont[i], title_lower, combined_text)]
        RECURSIVE emitted(_)
        emitted(k) ==
            IF k = 0 THEN <<>>
            ELSE emitted(k - 1) \o
                 (IF Leq(MIN_CONFIDENCE, confidence[k])
                  THEN <<SemanticTag(FullPath(ont[k]),
                                     IF Leq(confidence[k], Float(1, 1))
                                     THEN confidence[k] ELSE Float(1, 1),
                                     "rule_based")>>
                  ELSE <<>>)
    IN  IF t.t # "str" THEN Raised ELSE TaggerOutcome(emitted(Len(ont)))

\* RuleBasedTagger(ontology).tag(title, description); description is
\* formatted into the text, so None reads "None"
RuleBasedTaggerTag(ont, t, d) ==
    LET combined_text == Lower(StrOf(t) \o <<" ">> \o StrOf(d))
        \* a title that is no str has no lower()
        title_lower == Lower(t.v)
        confidence == [i \in DOMAIN ont |->
                          ComputeConfidence(ont[i], title_lower, combined_text)]
        RECURSIVE emitted(_)
        emitted(k) ==
            IF k = 0 THEN <<>>
            ELSE emitted(k - 1) \o
                 (IF Leq(MIN_CONFIDENCE, confidence[k])
                  THEN <<SemanticTag(FullPath(ont[k]),
                                     IF Leq(confidence[k], Float(1, 1))
                                     THEN confidence[k] ELSE Float(1, 1),
                                     "rule_based")>>
                  ELSE <<>>)
    IN  IF t.t # "str" THEN Raised ELSE TaggerOutcome(emitted(Len(ont)))

\* np.round(sim, 4): to the nearest 1/10000, a tie to the even one
Round4(x) ==
    LET q == (x.n * 10000) \div x.d
        r == (x.n * 10000) % x.d
    IN  Float(IF 2 * r < x.d THEN q
              ELSE IF 2 * r > x.d THEN q + 1
              ELSE IF q % 2 = 0 THEN q ELSE q + 1, 10000)

ImportError == [kind |-> "raised", exc |-> "ImportError"]

\* EmbeddingTagger.__init__: no model, no reference embeddings
NewEmbeddingTagger(ont, threshold) ==
    [ontology |-> ont, threshold |-> threshold, model |-> PyNone,
     reference_embeddings |-> PyNone, tag_paths |-> <<>>, initialized |-> FALSE]

\* an instance that takes itself for uninitialized at every call
AlreadyInitialized_Never(t) == FALSE

\* `if self._initialized: return`
AlreadyInitialized(t) == t.initialized

\* an initialization that sets the flag as soon as the model is loaded
LazyInit_FlagFirst(t, env) ==
    LET paths == [i \in DOMAIN t.ontology |-> FullPath(t.ontology[i])]
        texts == [i \in DOMAIN t.ontology |-> Join(<<" ">>, AllTerms(t.ontology[i]))]
    IN  IF AlreadyInitialized(t) THEN [tagger |-> t, outcome |-> Returned(<<>>)]
        ELSE CASE env.init = "import_error" -> [tagger |-> t, outcome |-> ImportError]
               [] env.init = "load_error" -> [tagger |-> t, outcome |-> Raised]
               [] env.init = "encode_error" ->
                      [tagger |-> [t EXCEPT !.model = PyStr(<<>>), !.tag_paths = paths,
                                            !.initialized = TRUE],
                       outcome |-> Raised]
               [] env.init = "ok" ->
                      [tagger |-> [t EXCEPT !.model = PyStr(<<>>), !.tag_paths = paths,
                                            !.reference_embeddings = PyList(texts),
                                            !.initialized = TRUE],
                       outcome |-> Returned(<<>>)]

\* EmbeddingTagger._lazy_init and _build_reference_embeddings.  env.init says
\* how the runtime answers: the import fails, loading the model fails,
\* encoding the reference texts fails, or all succeed.  An embedding is
\* kept as the text it encodes (" ".join(tag.all_terms)).
LazyInit(t, env) ==
    LET paths == [i \in DOMAIN t.ontology |-> FullPath(t.ontology[i])]
        texts == [i \in DOMAIN t.ontology |-> Join(<<" ">>, AllTerms(t.ontology[i]))]
    IN  IF AlreadyInitialized(t) THEN [tagger |-> t, outcome |-> Returned(<<>>)]
        ELSE CASE env.init = "import_error" -> [tagger |-> t, outcome |-> ImportError]
               [] env.init = "load_error" -> [tagger |-> t, outcome |-> Raised]
               [] env.init = "encode_error" ->
                      [tagger |-> [t EXCEPT !.model = PyStr(<<>>), !.tag_paths = paths],
                       outcome |-> Raised]
               [] env.init = "ok" ->
                      [tagger |-> [t EXCEPT !.model = PyStr(<<>>), !.tag_paths = paths,
                                            !.reference_embeddings = PyList(texts),
                                            !.initialized = TRUE],
                       outcome |-> Returned(<<>>)]

\* EmbeddingTagger.tag(title, description): env.sims are the cosine
\* similarities of the text to the reference embeddings
EmbeddingTaggerTag(t, env) ==
    LET init == LazyInit(t, env)
        self == init.tagger
        RECURSIVE emitted(_)
        emitted(k) ==
            IF k = 0 THEN <<>>
            ELSE emitted(k - 1) \o
                 (IF Leq(self.threshold, env.sims[k])
                  THEN <<SemanticTag(self.tag_paths[k], Round4(env.sims[k]), "embedding")>>
                  ELSE <<>>)
    IN  IF init.outcome.kind = "raised" THEN init
        ELSE [tagger |-> self, outcome |-> TaggerOutcome(emitted(Len(self.tag_paths)))]

\* an apply_tags that catches no exception of the embedding strategy
CaughtByApplyTags_Nothing(outcome) == FALSE

\* `except ImportError:` of apply_tags
CaughtByApplyTags(outcome) == outcome = ImportError

\* a later tag of a path never replacing the one kept
Replaces_Never(tag, kept) == FALSE

\* `tag.confidence > seen[key].confidence`
Replaces(tag, kept) == ~Leq(tag.confidence, kept.confidence)

\* apply_tags(title, description, use_embeddings) over the Ontology ont:
\* the lists of the two strategies and the outcome
ApplyTagsResult(ont, t, d, ue, env) ==
    LET Deduplicated(all_tags) ==
            LET RECURSIVE seen(_)
                seen(k) ==
                    IF k = 0 THEN <<>>
                    ELSE LET Keep(s, tag, P) ==
                                 IF P = {} THEN Append(s, tag)
                                 ELSE LET i == CHOOSE j \in P : TRUE
                                      IN  IF Replaces(tag, s[i])
                                          THEN [s EXCEPT ![i] = tag] ELSE s
                             Visit(s, tag) ==
                                 Keep(s, tag, {i \in DOMAIN s : s[i].tag = tag.tag})
                         IN  Visit(seen(k - 1), all_tags[k])
            IN  SortByConfidence(seen(Len(all_tags)))
        Collected(rule_list, embed_list, embed, raised) ==
            [rule_tags |-> rule_list,
             embed_tags |-> embed_list,
             embed_outcome |-> embed,
             tags |-> IF raised THEN Raised
                      ELSE Returned(Deduplicated(rule_list \o embed_list))]
        \* an exception of the embedding strategy that is caught skips the
        \* strategy, any other ends the call
        Run(rule, embed) ==
            Collected(IF rule.kind = "returned" THEN rule.payload ELSE <<>>,
                      IF embed.kind = "returned" THEN embed.payload ELSE <<>>,
                      IF rule.kind = "raised" THEN NoOutcome ELSE embed,
                      \/ rule.kind = "raised"
                      \/ embed.kind = "raised" /\ ~CaughtByApplyTags(embed))
    IN  Run(RuleBasedTaggerTag(ont, t, d),
            IF ue
            THEN EmbeddingTaggerTag(
                     NewEmbeddingTagger(ont, EMBEDDING_SIMILARITY_THRESHOLD), env).outcome
            ELSE NoOutcome)

TagInit ==
    /\ ontology = <<>>
    /\ title = PyNone
    /\ description = PyNone
    /\ use_embeddings = FALSE
    /\ rule_tags = <<>>
    /\ embed_tags = <<>>
    /\ embed_outcome = NoOutcome
    /\ tags = NoOutcome
    /\ embed_tagger = PyNone
    /\ tag_calls = 0

\* ---------------------------------------------------------------- tagging
\* texts given as title or description:
\*   AI_CLIMATE  "AI for Climate Resilience"
\*   ML_CLIMATE  "machine learning applications in climate adaptation"
\*   TRAINING    "Training grants"
\*   UNKNOWN     "Unknown"
\*   AI_RESEARCH "Research on AI"
TEXTS ==
    [ AI_CLIMATE |-> <<"A","I"," ","f","o","r"," ","C","l","i","m","a","t","e"," ","R","e","s","i","l","i","e","n","c","e">>,
      ML_CLIMATE |-> <<"m","a","c","h","i","n","e"," ","l","e","a","r","n","i","n","g"," ","a","p","p","l","i","c","a","t","i","o","n","s"," ","i","n"," ","c","l","i","m","a","t","e"," ","a","d","a","p","t","a","t","i","o","n">>,
      TRAINING |-> <<"T","r","a","i","n","i","n","g"," ","g","r","a","n","t","s">>,
      UNKNOWN |-> <<"U","n","k","n","o","w","n">>,
      AI_RESEARCH |-> <<"R","e","s","e","a","r","c","h"," ","o","n"," ","A","I">> ]

\* ontologies (category, name, synonyms of each tag, in file order):
\*   SCENARIO   research_domains/artificial_intelligence ["machine learning"],
\*              research_domains/climate_science ["climate adaptation"]
\*   SHORT      research_domains/ai ["AI"], research_domains/training []
\*   DUPLICATE  research_domains/artificial_intelligence ["AI"], and the same
\*              path again with ["machine learning"]
\*   EMPTY      no tag
\*   BROAD      research_domains/climate_science ["climate adaptation",
\*              "climate", "resilience", "adapt", "ocean", "carbon"]
\*   LARGE      research_domains/ai, grant, climate, biology, chemistry,
\*              physics, energy, health, ocean, space, education: eleven
\*              tags, none with a synonym
ONTOLOGIES ==
    LET research_domains == <<"r","e","s","e","a","r","c","h","_","d","o","m","a","i","n","s">>
        artificial_intelligence == <<"a","r","t","i","f","i","c","i","a","l","_","i","n","t","e","l","l","i","g","e","n","c","e">>
    IN  [ SCENARIO |->
              << [category |-> research_domains, name |-> artificial_intelligence,
                  synonyms |-> <<<<"m","a","c","h","i","n","e"," ","l","e","a","r","n","i","n","g">>>>],
                 [category |-> research_domains, name |-> <<"c","l","i","m","a","t","e","_","s","c","i","e","n","c","e">>,
                  synonyms |-> <<<<"c","l","i","m","a","t","e"," ","a","d","a","p","t","a","t","i","o","n">>>>] >>,
          SHORT |->
              << [category |-> research_domains, name |-> <<"a","i">>,
                  synonyms |-> <<<<"A","I">>>>],
                 [category |-> research_domains, name |-> <<"t","r","a","i","n","i","n","g">>,
                  synonyms |-> <<>>] >>,
          DUPLICATE |->
              << [category |-> research_domains, name |-> artificial_intelligence,
                  synonyms |-> <<<<"A","I">>>>],
                 [category |-> research_domains, name |-> artificial_intelligence,
                  synonyms |-> <<<<"m","a","c","h","i","n","e"," ","l","e","a","r","n","i","n","g">>>>] >>,
          EMPTY |-> <<>>,
          BROAD |->
              << [category |-> research_domains, name |-> <<"c","l","i","m","a","t","e","_","s","c","i","e","n","c","e">>,
                  synonyms |-> <<<<"c","l","i","m","a","t","e"," ","a","d","a","p","t","a","t","i","o","n">>, <<"c","l","i","m","a","t","e">>, <<"r","e","s","i","l","i","e","n","c","e">>, <<"a","d","a","p","t">>, <<"o","c","e","a","n">>, <<"c","a","r","b","o","n">>>>] >>,
          LARGE |->
              <<
                 [category |-> research_domains, name |-> <<"a","i">>, synonyms |-> <<>>],
                 [category |-> research_domains, name |-> <<"g","r","a","n","t">>, synonyms |-> <<>>],
                 [category |-> research_domains, name |-> <<"c","l","i","m","a","t","e">>, synonyms |-> <<>>],
                 [category |-> research_domains, name |-> <<"b","i","o","l","o","g","y">>, synonyms |-> <<>>],
                 [category |-> research_domains, name |-> <<"c","h","e","m","i","s","t","r","y">>, synonyms |-> <<>>],
                 [category |-> research_domains, name |-> <<"p","h","y","s","i","c","s">>, synonyms |-> <<>>],
                 [category |-> research_domains, name |-> <<"e","n","e","r","g","y">>, synonyms |-> <<>>],
                 [category |-> research_domains, name |-> <<"h","e","a","l","t","h">>, synonyms |-> <<>>],
                 [category |-> research_domains, name |-> <<"o","c","e","a","n">>, synonyms |-> <<>>],
                 [category |-> research_domains, name |-> <<"s","p","a","c","e">>, synonyms |-> <<>>],
                 [category |-> research_domains, name |-> <<"e","d","u","c","a","t","i","o","n">>, synonyms |-> <<>>] >> ]

OntologyChoices == {ONTOLOGIES[k] : k \in DOMAIN ONTOLOGIES \ {"LARGE"}}
TitleChoices ==
    {PyStr(TEXTS.AI_CLIMATE), PyStr(TEXTS.TRAINING), PyStr(TEXTS.UNKNOWN),
     PyStr(TEXTS.AI_RESEARCH)}
DescriptionChoices ==
    {PyStr(TEXTS.ML_CLIMATE), PyStr(TEXTS.AI_RESEARCH), PyStr(<<>>), PyNone}

\* cosine similarities the model may report, and thresholds a caller may set
SimChoices == {Float(k, 100000) : k \in {0 - 20000, 34996, 35000, 50000, 100001}}
ThresholdChoices == {EMBEDDING_SIMILARITY_THRESHOLD, Float(0 - 1, 1)}

\* the runtime of a call that never reaches the embedding strategy
NoEmbedding == [init |-> "import_error", sims |-> <<>>]

\* how the runtime may answer one EmbeddingTagger.tag call on ont
EmbeddingEnvs(ont) ==
    {[init |-> k, sims |-> [i \in DOMAIN ont |-> Float(1, 2)]] :
         k \in {"import_error", "load_error", "encode_error"}}
    \cup {[init |-> "ok", sims |-> s] : s \in [DOMAIN ont -> SimChoices]}

\* apply_tags(title, description, use_embeddings)
ApplyTags(ont, t, d, ue, env) ==
    /\ tags = NoOutcome /\ embed_tagger = PyNone
    /\ ontology' = ont
    /\ title' = t
    /\ description' = d
    /\ use_embeddings' = ue
    /\ \E run \in {ApplyTagsResult(ont, t, d, ue, env)} :
           /\ rule_tags' = run.rule_tags
           /\ embed_tags' = run.embed_tags
           /\ embed_outcome' = run.embed_outcome
           /\ tags' = run.tags
    /\ UNCHANGED <<embed_tagger, tag_calls, io_vars, search_vars, fetch_vars, pipe_vars, extract_vars, flat_records>>

\* EmbeddingTagger(ontology, threshold=...)
EmbeddingTaggerInit(ont, threshold) ==
    /\ tags = NoOutcome /\ embed_tagger = PyNone
    /\ ontology' = ont
    /\ embed_tagger' = NewEmbeddingTagger(ont, threshold)
    /\ UNCHANGED <<title, description, use_embeddings, rule_tags, embed_tags,
                   embed_outcome, tags, tag_calls, io_vars, search_vars, fetch_vars,
                   pipe_vars, extract_vars, flat_records>>

\* embed_tagger.tag(title, description): the text reaches the outcome only
\* through the similarities the model reports for it
EmbeddingTaggerTagCall(env) ==
    /\ embed_tagger # PyNone
    /\ tag_calls < MaxTagCalls
    /\ tag_calls' = tag_calls + 1
    /\ \E run \in {EmbeddingTaggerTag(embed_tagger, env)} :
           /\ embed_tagger' = run.tagger
           /\ tags' = run.outcome
           /\ embed_tags' = IF run.outcome.kind = "returned" THEN run.outcome.payload
                            ELSE <<>>
    /\ UNCHANGED <<ontology, title, description, use_embeddings, rule_tags,
                   embed_outcome, io_vars, search_vars, fetch_vars, pipe_vars, extract_vars, flat_records>>

TagNext ==
    \/ \E ont \in OntologyChoices, t \in TitleChoices, d \in DescriptionChoices,
          ue \in BOOLEAN :
           \E env \in IF ue THEN EmbeddingEnvs(ont) ELSE {NoEmbedding} :
               ApplyTags(ont, t, d, ue, env)
    \/ \E ont \in OntologyChoices, th \in ThresholdChoices : EmbeddingTaggerInit(ont, th)
    \/ \E env \in EmbeddingEnvs(ontology) : EmbeddingTaggerTagCall(env)

\* ------------------------------------------------------- extract_fields
\* a or b
Or(a, b) == IF Truthy(a) THEN a ELSE b

PyFloat(n) == [t |-> "float", v |-> Float(n, 1)]

\* date strings of upstream payloads with date_parser.parse(s).date()
\* .isoformat(), None where the parse raises ValueError:
\*   "2024-01-15" and "01/15/2024" are 2024-01-15, "TBD" is no date
DATES ==
    \* "2024-01-15", "2024-01-15"
    { <<<<"2","0","2","4","-","0","1","-","1","5">>, PyStr(<<"2","0","2","4","-","0","1","-","1","5">>)>>,
      \* "01/15/2024", "2024-01-15"
      <<<<"0","1","/","1","5","/","2","0","2","4">>, PyStr(<<"2","0","2","4","-","0","1","-","1","5">>)>>,
      <<<<"T","B","D">>, PyNone>>,
      \* "2024-02-01", "2024-02-01"
      <<<<"2","0","2","4","-","0","2","-","0","1">>, PyStr(<<"2","0","2","4","-","0","2","-","0","1">>)>>,
      \* "2024-03-01", "2024-03-01"
      <<<<"2","0","2","4","-","0","3","-","0","1">>, PyStr(<<"2","0","2","4","-","0","3","-","0","1">>)>> }

\* date_parser.parse(date_value).date().isoformat() inside _parse_date, for
\* None and for the strings of DATES
ParseDate(v) ==
    IF ~Truthy(v) THEN PyNone
    ELSE (CHOOSE p \in DATES : p[1] = v.v)[2]

\* millisecond timestamps of upstream payloads with
\* datetime.fromtimestamp(ms / 1000).date().isoformat() in UTC on Linux:
\*   1705316400000 is 2024-01-15, 10^18 raises ValueError (year out of
\*   range), 10^20 raises OSError (value too large for defined data type)
TIMESTAMPS ==
    { <<<<"1","7","0","5","3","1","6","4","0","0","0","0","0">>, Returned(PyStr(<<"2","0","2","4","-","0","1","-","1","5">>))>>,
      <<<<"1","0","0","0","0","0","0","0","0","0","0","0","0","0","0","0","0","0","0">>, [kind |-> "raised", exc |-> "ValueError"]>>,
      <<<<"1","0","0","0","0","0","0","0","0","0","0","0","0","0","0","0","0","0","0","0","0">>, [kind |-> "raised", exc |-> "OSError"]>> }

\* GrantsGovIngestor._parse_date(date_value): the ISO date or None, or the
\* exception it lets through
GrantsParseDate(date_value) ==
    IF ~Truthy(date_value) THEN Returned(PyNone)
    ELSE IF date_value.t \in {"int", "long"}
         THEN LET dt == (CHOOSE p \in TIMESTAMPS : p[1] = date_value.v)[2]
              IN  IF dt.kind = "returned" THEN dt
                  \* except (ValueError, TypeError, OverflowError)
                  ELSE IF dt.exc \in {"ValueError", "TypeError", "OverflowError"}
                       THEN Returned(PyNone)
                  ELSE Raised
    ELSE IF date_value.t = "str" THEN Returned(ParseDate(date_value))
    ELSE Returned(PyNone)

\* NSFIngestor._parse_date(date_str): date_parser.parse raises TypeError for
\* what is no string, and the TypeError is caught
NsfParseDate(date_str) ==
    IF ~Truthy(date_str) THEN PyNone
    ELSE IF date_str.t = "str" THEN ParseDate(date_str)
    ELSE PyNone

\* `float(x) if x else None`, None on ValueError and TypeError; the strings
\* are strings of digits or "N/A"
ParseFloat(x) ==
    IF ~Truthy(x) THEN PyNone
    ELSE CASE x.t = "int" -> PyFloat(x.v)
           [] x.t = "str" /\ (\A i \in DOMAIN x.v : IsDigit(x.v[i])) -> PyFloat(ParseInt(x.v))
           [] x.t = "str" /\ x.v = <<"N","/","A">> -> PyNone
           [] x.t = "dict" -> PyNone

\* GrantsGovIngestor.extract_fields(raw_data)
GrantsExtractFields(raw_data) ==
    LET given == GetOr(raw_data, "opportunity", PyDict(raw_data))
        synopsis == GetOr(raw_data, "synopsis", PyDict(EmptyDict))
        \* {**opportunity, **synopsis}
        Merged(a, b) == [k \in DOMAIN a \cup DOMAIN b |-> IF k \in DOMAIN b THEN b[k] ELSE a[k]]
        Fields(opportunity) ==
            LET FoaId(number, opportunityNumber, oppId) ==
                    IF number # <<>> THEN number
                    ELSE IF opportunityNumber # <<>> THEN opportunityNumber
                    ELSE IF oppId # <<>> THEN oppId
                    ELSE StrOf(GetOr(opportunity, "id", PyStr(<<>>)))
                SourceUrl(opp_id) ==
                    IF Truthy(opp_id)
                    \* "https://www.grants.gov/search-results-detail/"
                    THEN PyStr(<<"h","t","t","p","s",":","/","/","w","w","w",".","g","r","a","n","t","s",".","g","o","v","/","s","e","a","r","c","h","-","r","e","s","u","l","t","s","-","d","e","t","a","i","l","/">> \o StrOf(opp_id))
                    ELSE PyStr(<<>>)
                Part(val) == IF Truthy(val) /\ val.t = "str" /\ Len(val.v) > 20
                             THEN <<val.v>> ELSE <<>>
                Description(description_parts) ==
                    IF description_parts # <<>>
                    THEN PyStr(Join(<<"\n", "\n">>, description_parts)) ELSE PyNone
                open_date == GrantsParseDate(Or(Get(opportunity, "openDate"),
                                                Or(Get(opportunity, "postDate"),
                                                   Get(opportunity, "postingDate"))))
                close_date == GrantsParseDate(Or(Get(opportunity, "closeDate"),
                                                 Or(Get(opportunity, "responseDate"),
                                                    Get(opportunity, "archiveDate"))))
            IN  IF open_date = Raised \/ close_date = Raised THEN Raised
                ELSE Returned(
                [foa_id |-> PyStr(FoaId(
                     StrOf(GetOr(opportunity, "number", PyStr(<<>>))),
                     StrOf(GetOr(opportunity, "opportunityNumber", PyStr(<<>>))),
                     StrOf(GetOr(opportunity, "oppId", PyStr(<<>>))))),
                 title |-> GetOr(opportunity, "title",
                                 \* "Unknown"
                                 GetOr(opportunity, "opportunityTitle", PyStr(<<"U","n","k","n","o","w","n">>))),
                 agency |-> GetOr(opportunity, "agency",
                                  \* "Unknown"
                                  GetOr(opportunity, "agencyName", PyStr(<<"U","n","k","n","o","w","n">>))),
                 open_date |-> open_date.payload,
                 close_date |-> close_date.payload,
                 eligibility |-> Get(opportunity, "eligibility"),
                 program_description |-> Description(
                     Part(Get(opportunity, "synopsis")) \o Part(Get(opportunity, "synopsisDesc"))
                     \o Part(Get(opportunity, "description"))
                     \o Part(Get(opportunity, "opportunityTitle"))),
                 award_range_min |-> ParseFloat(Or(Get(opportunity, "awardFloor"),
                                                   Get(opportunity, "fundingFloor"))),
                 award_range_max |-> ParseFloat(Or(Get(opportunity, "awardCeiling"),
                                                   Get(opportunity, "fundingCeiling"))),
                 source_url |-> SourceUrl(Or(Get(opportunity, "oppId"), Get(opportunity, "id"))),
                 \* "grants_gov"
                 source |-> PyStr(<<"g","r","a","n","t","s","_","g","o","v">>)])
    IN  \* merging or reading what is no dict raises
        IF given.t # "dict" \/ (Truthy(synopsis) /\ synopsis.t # "dict") THEN Raised
        ELSE Fields(IF Truthy(synopsis) THEN Merged(given.v, synopsis.v) ELSE given.v)

\* s.strip()
RECURSIVE Strip(_)
Strip(s) ==
    IF s = <<>> THEN s
    ELSE IF s[1] \in {" ", "\n", "\t"} THEN Strip([i \in 1..(Len(s) - 1) |-> s[i + 1]])
    ELSE IF s[Len(s)] \in {" ", "\n", "\t"} THEN Strip(Prefix(s, Len(s) - 1))
    ELSE s

\* a range that starts at 0 up to the reported amount
NsfAwardRange_FromZero(award_amount) ==
    <<IF award_amount = PyNone THEN PyNone ELSE PyFloat(0), award_amount>>

\* "award_range_min": award_amount, "award_range_max": award_amount
NsfAwardRange(award_amount) == <<award_amount, award_amount>>

\* NSFIngestor.extract_fields(raw_data)
NsfExtractFields(raw_data) ==
    LET award_id == StrOf(GetOr(raw_data, "id", PyStr(<<>>)))
        awardee == GetOr(raw_data, "awardeeName", PyStr(<<>>))
        pi == Strip(StrOf(GetOr(raw_data, "piFirstName", PyStr(<<>>))) \o <<" ">>
                    \o StrOf(GetOr(raw_data, "piLastName", PyStr(<<>>))))
        eligibility_parts ==
            \* "Awardee: "
            (IF Truthy(awardee) THEN <<<<"A","w","a","r","d","e","e",":"," ">> \o StrOf(awardee)>> ELSE <<>>)
            \o (IF pi # <<>> THEN <<<<"P","I",":"," ">> \o pi>> ELSE <<>>)
        abstract == GetOr(raw_data, "abstractText", PyStr(<<>>))
        program == Or(Get(raw_data, "primaryProgram"),
                      GetOr(raw_data, "fundProgramName", PyStr(<<>>)))
        described == IF Truthy(program)
                     \* "Program: "
                     THEN PyStr(<<"P","r","o","g","r","a","m",":"," ">> \o StrOf(program) \o <<"\n", "\n">>
                                \o StrOf(abstract))
                     ELSE abstract
        award_amount == ParseFloat(Get(raw_data, "fundsObligatedAmt"))
    IN  Returned(
          [foa_id |-> PyStr(award_id),
           \* "Unknown"
           title |-> GetOr(raw_data, "title", PyStr(<<"U","n","k","n","o","w","n">>)),
           agency |-> GetOr(raw_data, "agency", PyStr(<<"N","S","F">>)),
           open_date |-> NsfParseDate(Get(raw_data, "startDate")),
           close_date |-> NsfParseDate(Get(raw_data, "expDate")),
           eligibility |-> IF eligibility_parts # <<>>
                           THEN PyStr(Join(<<";", " ">>, eligibility_parts)) ELSE PyNone,
           program_description |-> IF Truthy(described) THEN described ELSE PyNone,
           award_range_min |-> NsfAwardRange(award_amount)[1],
           award_range_max |-> NsfAwardRange(award_amount)[2],
           source_url |-> IF award_id # <<>>
                          \* "https://www.nsf.gov/awardsearch/showAward?AWD_ID="
                          THEN PyStr(<<"h","t","t","p","s",":","/","/","w","w","w",".","n","s","f",".","g","o","v","/","a","w","a","r","d","s","e","a","r","c","h","/","s","h","o","w","A","w","a","r","d","?","A","W","D","_","I","D","=">> \o award_id)
                          ELSE PyStr(<<>>),
           source |-> PyStr(<<"n","s","f">>)])

ExtractFields(src, raw_data) ==
    IF src = SOURCE_NSF THEN NsfExtractFields(raw_data) ELSE GrantsExtractFields(raw_data)

\* before connector.extract_fields is called
ExtractInit ==
    /\ extract_raw = PyNone
    /\ extract_outcome = NoOutcome

\* ------------------------------------------------- the FOARecord pipeline
\* str(uuid.uuid4()), whatever its digits
GeneratedId == PyStr(<<"u","u","i","d","4">>)

\* date.fromisoformat(val) for a str val (YYYY-MM-DD), None on ValueError
FromIsoFormat(val) ==
    IF val.t # "str" THEN val
    ELSE IF /\ Len(val.v) = 10
            /\ \A i \in {1, 2, 3, 4, 6, 7, 9, 10} : IsDigit(val.v[i])
            /\ val.v[5] = "-" /\ val.v[8] = "-"
         THEN [t |-> "date", v |-> val.v]
         ELSE PyNone

\* FOARecord(**fields): pydantic validates the types, and foa_id takes its
\* default (a uuid) only when the key is not passed.  ingested_at, the
\* time of construction, is left out.
FOARecord(fields) ==
    LET IsStr(x) == x.t = "str"
        Optional(x, type) == x.t \in {"none", type}
    IN  IF /\ "foa_id" \in DOMAIN fields => IsStr(fields.foa_id)
           /\ IsStr(fields.title) /\ IsStr(fields.agency)
           /\ IsStr(fields.source_url) /\ IsStr(fields.source)
           /\ Optional(fields.eligibility, "str")
           /\ Optional(fields.program_description, "str")
           /\ Optional(fields.open_date, "date") /\ Optional(fields.close_date, "date")
           /\ Optional(fields.award_range_min, "float")
           /\ Optional(fields.award_range_max, "float")
        THEN Returned(IF "foa_id" \in DOMAIN fields THEN fields
                      ELSE fields @@ ("foa_id" :> GeneratedId))
        ELSE Raised

\* steps 3-6 of process_single_url, the loop body of process_search:
\* extract_fields, apply_tags, tags[:MAX_TAGS_PER_FOA], the dates, FOARecord.
\* `tagging` is the apply_tags call made (title, description, rule_tags,
\* embed_tags, tags, embed_outcome), the last one when extraction raised
\* before it.
ProcessRaw(src, raw_data, ont, ue, env) ==
    LET Built(fields, run) ==
            [outcome |->
                 IF run.tags = Raised THEN Raised
                 ELSE FOARecord(
                          [fields EXCEPT !.open_date = FromIsoFormat(@),
                                         !.close_date = FromIsoFormat(@)]
                          @@ ("semantic_tags" :> PySliceTo(run.tags.payload, MAX_TAGS_PER_FOA))),
             tagging |-> <<fields.title, fields.program_description, run.rule_tags,
                           run.embed_tags, run.tags, run.embed_outcome>>]
        Tagged(fields) ==
            Built(fields,
                  ApplyTagsResult(ont, fields.title, fields.program_description, ue, env))
        Extracted(result) ==
            IF result = Raised
            THEN [outcome |-> Raised,
                  tagging |-> <<title, description, rule_tags, embed_tags, tags,
                                embed_outcome>>]
            ELSE Tagged(result.payload)
    IN  Extracted(ExtractFields(src, raw_data))

\* detect_source(url)
DetectSource(u) ==
    \* "grants.gov"
    IF Contains(Lower(u), <<"g","r","a","n","t","s",".","g","o","v">>) THEN SOURCE_GRANTS_GOV
    \* "nsf.gov"
    ELSE IF Contains(Lower(u), <<"n","s","f",".","g","o","v">>) THEN SOURCE_NSF
    ELSE SOURCE_GRANTS_GOV

\* item k of the upstream's result list, as a search hit.  Of every four
\* Grants.gov hits the first is a full one, the second carries its synopsis
\* as a text, the third only a title, the fourth an id and a title; of
\* every four NSF awards the first has a null agency, the second is a full
\* one, the third has a null title, the fourth only a title.
SearchHit(src, k) ==
    LET id == 100 + k
    IN  IF src = SOURCE_NSF
        THEN CASE k % 4 = 1 ->
                      [id |-> PyStr(IntToStr(id)), title |-> PyStr(TITLES.A), agency |-> PyNone]
               [] k % 4 = 2 ->
                      [id |-> PyStr(IntToStr(id)), title |-> PyStr(TITLES.A),
                       \* "01/15/2024"
                       agency |-> PyStr(<<"N","S","F">>), startDate |-> PyStr(<<"0","1","/","1","5","/","2","0","2","4">>),
                       expDate |-> PyStr(<<"T","B","D">>), fundsObligatedAmt |-> PyStr(<<"5","0","0","0">>),
                       awardeeName |-> PyStr(<<"M","I","T">>), piLastName |-> PyStr(<<"L","e","e">>),
                       \* "AI Institutes"
                       fundProgramName |-> PyStr(<<"A","I"," ","I","n","s","t","i","t","u","t","e","s">>)]
               [] k % 4 = 3 -> [id |-> PyStr(IntToStr(id)), title |-> PyNone]
               [] k % 4 = 0 -> [title |-> PyStr(TITLES.B)]
        ELSE CASE k % 4 = 0 ->
                      \* "NSF-24-1"
                      [id |-> PyInt(id), number |-> PyStr(<<"N","S","F","-","2","4","-","1">>),
                       title |-> PyStr(TITLES.A), agencyName |-> PyStr(<<"N","S","F">>),
                       \* "2024-01-15"
                       openDate |-> PyStr(<<"2","0","2","4","-","0","1","-","1","5">>), closeDate |-> PyStr(<<"T","B","D">>),
                       awardFloor |-> PyStr(<<"N","/","A">>), awardCeiling |-> PyInt(5000),
                       description |-> PyStr(TEXTS.ML_CLIMATE)]
               [] k % 4 = 1 ->
                      [id |-> PyInt(id), title |-> PyStr(TITLES.B),
                       synopsis |-> PyStr(TEXTS.ML_CLIMATE)]
               [] k % 4 = 2 -> [title |-> PyStr(TITLES.B)]
               [] k % 4 = 3 -> [id |-> PyInt(id), title |-> PyStr(TITLES.B)]

PipeInit ==
    /\ flat_records = <<>>
    /\ pipe_pc = "idle"
    /\ item = 0
    /\ records = <<>>
    /\ processed = NoOutcome

\* the ontology file read by Ontology(), and what the runtime may answer the
\* embedding strategy of one apply_tags call; the upstream of a pipeline
\* search serves full pages
PipelineOntologies == {ONTOLOGIES.SHORT, ONTOLOGIES.EMPTY, ONTOLOGIES.LARGE}
PipelineEnvs(ont, ue) ==
    IF ue
    THEN {[init |-> "import_error", sims |-> [i \in DOMAIN ont |-> Float(1, 2)]],
          [init |-> "load_error", sims |-> [i \in DOMAIN ont |-> Float(1, 2)]],
          [init |-> "ok", sims |-> [i \in DOMAIN ont |-> Float(1, 2)]],
          [init |-> "ok", sims |-> [i \in DOMAIN ont |-> Float(40 + i, 100)]]}
    ELSE {NoEmbedding}
PipelineMaxResults == 0 .. MaxProcessed
\* URLs given to process_single_url
PipelineUrls ==
    {URLS.GRANTS_DETAIL, URLS.GRANTS_QUERY, URLS.GRANTS_NO_DIGITS, URLS.OTHER_HOST,
     URLS.NSF_AWARD, URLS.NSF_PATH_SHORT}
PipelineAvail == {0, 1, MaxProcessed + 1}

\* process_single_url(url, use_embeddings): detect_source, get_ingestor,
\* ingestor.fetch_by_url(url)
ProcessSingleUrl(u, ue, ont) ==
    /\ pipe_pc = "idle"
    /\ FetchByUrl(DetectSource(u), u)
    /\ pipe_pc' = "single"
    /\ use_embeddings' = ue
    /\ ontology' = ont
    /\ UNCHANGED <<title, description, rule_tags, embed_tags, embed_outcome, tags,
                   embed_tagger, tag_calls, item, records, processed>>

\* a test of the payload that looks at the error marker only
ProcessFetched_EmptyAccepted(env) ==
    /\ pipe_pc = "single" /\ fetch_pc = "done"
    /\ pipe_pc' = "done"
    /\ IF \/ fetched.kind = "raised"
          \/ Truthy(Get(fetched.payload, "error"))
       THEN /\ processed' = Raised
            /\ UNCHANGED <<title, description, rule_tags, embed_tags, embed_outcome, tags>>
       ELSE \E run \in {ProcessRaw(source, fetched.payload, ontology, use_embeddings, env)} :
                /\ processed' = run.outcome
                /\ embed_outcome' = run.tagging[6]
                /\ title' = run.tagging[1]
                /\ description' = run.tagging[2]
                /\ rule_tags' = run.tagging[3]
                /\ embed_tags' = run.tagging[4]
                /\ tags' = run.tagging[5]
    /\ UNCHANGED <<ontology, use_embeddings, embed_tagger, tag_calls, item, records,
                   io_vars, search_vars, fetch_vars, extract_vars, flat_records>>

\* process_single_url once fetch_by_url has ended: an exception of the
\* fetch propagates, an empty or error-marked payload raises RuntimeError,
\* else the record is built
ProcessFetched(env) ==
    /\ pipe_pc = "single" /\ fetch_pc = "done"
    /\ pipe_pc' = "done"
    /\ IF \/ fetched.kind = "raised"
          \/ DOMAIN fetched.payload = {}
          \/ Truthy(Get(fetched.payload, "error"))
       THEN /\ processed' = Raised
            /\ UNCHANGED <<title, description, rule_tags, embed_tags, embed_outcome, tags>>
       ELSE \E run \in {ProcessRaw(source, fetched.payload, ontology, use_embeddings, env)} :
                /\ processed' = run.outcome
                /\ embed_outcome' = run.tagging[6]
                /\ title' = run.tagging[1]
                /\ description' = run.tagging[2]
                /\ rule_tags' = run.tagging[3]
                /\ embed_tags' = run.tagging[4]
                /\ tags' = run.tagging[5]
    /\ UNCHANGED <<ontology, use_embeddings, embed_tagger, tag_calls, item, records,
                   io_vars, search_vars, fetch_vars, extract_vars, flat_records>>

\* process_search(keyword, source, max_results, use_embeddings):
\* get_ingestor, ingestor.search(keyword, max_results)
ProcessSearch(src, mr, n, ue, ont) ==
    /\ pipe_pc = "idle"
    /\ SearchCall(src, mr, n)
    /\ pipe_pc' = "search"
    /\ use_embeddings' = ue
    /\ ontology' = ont
    /\ item' = 0
    /\ records' = <<>>
    /\ UNCHANGED <<title, description, rule_tags, embed_tags, embed_outcome, tags,
                   embed_tagger, tag_calls, processed>>

\* a loop that loses the records built so far when an item fails
Appended_Dropping(list, outcome) ==
    IF outcome.kind = "returned" THEN Append(list, outcome.payload) ELSE <<>>

\* records.append(record), or `except Exception: ... continue`
Appended(list, outcome) ==
    IF outcome.kind = "returned" THEN Append(list, outcome.payload) ELSE list

\* for i, raw_data in enumerate(raw_results): a record is appended, or the
\* exception is logged and the loop goes on
ProcessSearchItem(env) ==
    /\ pipe_pc = "search" /\ search_pc = "done"
    /\ item < Len(returned)
    /\ item' = item + 1
    /\ \E run \in {ProcessRaw(source, SearchHit(source, returned[item + 1]), ontology,
                              use_embeddings, env)} :
           /\ records' = Appended(records, run.outcome)
           /\ embed_outcome' = run.tagging[6]
           /\ title' = run.tagging[1]
           /\ description' = run.tagging[2]
           /\ rule_tags' = run.tagging[3]
           /\ embed_tags' = run.tagging[4]
           /\ tags' = run.tagging[5]
    /\ UNCHANGED <<ontology, use_embeddings, embed_tagger, tag_calls, pipe_pc, processed,
                   io_vars, search_vars, fetch_vars, extract_vars, flat_records>>

\* return records
ProcessSearchReturn ==
    /\ pipe_pc = "search" /\ search_pc = "done"
    /\ item = Len(returned)
    /\ pipe_pc' = "done"
    /\ processed' = Returned(records)
    /\ UNCHANGED <<item, records, tag_vars, io_vars, search_vars, fetch_vars, extract_vars, flat_records>>

\* s.split(sep) for a non-empty sep
RECURSIVE Split(_, _)
Split(s, sep) ==
    LET found == {i \in 1..Len(s) : MatchAt(s, i, sep)}
    IN  IF found = {} THEN <<s>>
        ELSE LET i == SetMin(found)
             IN  <<Prefix(s, i - 1)>>
                 \o Split([j \in 1..(Len(s) - (i + Len(sep) - 1)) |-> s[i + Len(sep) - 1 + j]],
                          sep)

\* the flattened form read back: the identifying columns as they are, the
\* tag column split at "; " into its '<path> (<confidence>, <method>)'
\* entries, none for an empty column
Reparse(flat) ==
    [foa_id |-> flat.foa_id, title |-> flat.title, agency |-> flat.agency,
     semantic_tags |-> IF flat.semantic_tags.v = <<>> THEN <<>>
                       ELSE Split(flat.semantic_tags.v, <<";", " ">>)]

\* a to_flat_dict that joins the tags with ", "
ToFlatDict_CommaJoined(record) ==
    [record EXCEPT !.semantic_tags =
         PyStr(Join(<<",", " ">>, [i \in DOMAIN @ |-> @[i].tag]))]

\* FOARecord.to_flat_dict(): the dates as ISO strings or "", the tags joined
\* with "; " as "<tag> (<confidence:.2f>, <method>)"
ToFlatDict(record) ==
    LET \* a date is truthy, None is not
        Iso(d) == IF d.t = "date" THEN PyStr(d.v) ELSE PyStr(<<>>)
        \* f"{confidence:.2f}" of a confidence in 0 .. 1: to the nearest
        \* 1/100, a tie to the even one
        Fixed2(c) ==
            LET q == (c.n * 100) \div c.d
                r == (c.n * 100) % c.d
                h == IF 2 * r < c.d THEN q
                     ELSE IF 2 * r > c.d THEN q + 1
                     ELSE IF q % 2 = 0 THEN q ELSE q + 1
            IN  IntToStr(h \div 100) \o <<".">> \o IntToStr((h % 100) \div 10)
                \o IntToStr(h % 10)
        Method(m) == IF m = "rule_based" THEN <<"r","u","l","e","_","b","a","s","e","d">> ELSE <<"e","m","b","e","d","d","i","n","g">>
        Entry(t) == t.tag \o <<" ", "(">> \o Fixed2(t.confidence) \o <<",", " ">>
                    \o Method(t.method) \o <<")">>
    IN  [record EXCEPT !.open_date = Iso(@),
                       !.close_date = Iso(@),
                       !.semantic_tags =
                           PyStr(Join(<<";", " ">>, [i \in DOMAIN @ |-> Entry(@[i])]))]

\* export_csv(records, ...) of main: records is [record] after
\* process_single_url and the list process_search returned; nothing is
\* flattened when it is empty
ExportCsv ==
    /\ pipe_pc = "done" /\ processed.kind = "returned"
    /\ flat_records = <<>>
    /\ \E exported \in {IF fetch_pc = "done" THEN <<processed.payload>>
                         ELSE processed.payload} :
           /\ exported # <<>>
           /\ flat_records' = [i \in DOMAIN exported |-> ToFlatDict(exported[i])]
    /\ UNCHANGED <<io_vars, search_vars, fetch_vars, tag_vars, pipe_vars, extract_vars>>

PipelineNext ==
    \/ \E u \in PipelineUrls, ue \in BOOLEAN, ont \in PipelineOntologies :
           ProcessSingleUrl(u, ue, ont)
    \/ FetchAttempt
    \/ GrantsFetchFails
    \/ (fetch_pc = "await" /\ source = SOURCE_GRANTS_GOV
        /\ \E inner \in DirectInners(ident) : GrantsFetchResponse(inner))
    \/ FallbackRequest
    \/ FallbackFails
    \/ (fetch_pc = "fallback_await"
        /\ \E hits \in HitLists(ident) : FallbackResponse(hits))
    \/ NsfFetchFails
    \/ (fetch_pc = "await" /\ source = SOURCE_NSF
        /\ \E awards \in AwardLists(ident) : NsfFetchResponse(awards))
    \/ \E env \in PipelineEnvs(ontology, use_embeddings) : ProcessFetched(env)
    \/ \E src \in Sources, mr \in PipelineMaxResults, n \in PipelineAvail,
          ue \in BOOLEAN, ont \in PipelineOntologies :
           ProcessSearch(src, mr, n, ue, ont)
    \/ SearchRequest
    \/ SearchLoopExit
    \/ SearchRequestFails
    \/ \E page \in {FullPage(source, avail, offset, page_size)} : SearchResponse(page)
    \/ SearchSleep
    \/ SearchReturn
    \/ \E env \in PipelineEnvs(ontology, use_embeddings) : ProcessSearchItem(env)
    \/ ProcessSearchReturn
    \/ ExportCsv

\* ------------------------------------------------ extract_fields on its own
\* the mapping d with only the keys of ks
Restrict(d, ks) == [k \in ks |-> d[k]]

\* payloads that carry any choice of optional values: choices maps a key to
\* the values it may carry, every key may also be absent
RECURSIVE PayloadsOver(_, _)
PayloadsOver(choices, ks) ==
    IF ks = {} THEN {EmptyDict}
    ELSE LET k == CHOOSE x \in ks : TRUE
             rest == PayloadsOver(choices, ks \ {k})
         IN  rest \cup {d @@ (k :> v) : d \in rest, v \in choices[k]}
PayloadsOf(choices) == PayloadsOver(choices, DOMAIN choices)

\* a Grants.gov search hit with every documented key, the synopsis a text
GRANTS_HIT ==
    [id |-> PyInt(101), number |-> PyStr(<<"N","S","F","-","2","4","-","1">>), title |-> PyStr(TITLES.A),
     agencyName |-> PyStr(<<"N","S","F">>), openDate |-> PyStr(<<"2","0","2","4","-","0","1","-","1","5">>),
     closeDate |-> PyStr(<<"0","1","/","1","5","/","2","0","2","4">>), awardFloor |-> PyInt(1000),
     awardCeiling |-> PyInt(5000), synopsis |-> PyStr(TEXTS.ML_CLIMATE),
     description |-> PyStr(TEXTS.AI_CLIMATE)]

\* a fetchOpportunity response with every documented key
GRANTS_DETAIL ==
    [opportunity |->
         [oppId |-> PyInt(101), opportunityNumber |-> PyStr(<<"N","S","F","-","2","4","-","1">>),
          opportunityTitle |-> PyStr(TITLES.A), agencyName |-> PyStr(<<"N","S","F">>),
          postingDate |-> PyStr(<<"2","0","2","4","-","0","1","-","1","5">>), archiveDate |-> PyStr(<<"0","1","/","1","5","/","2","0","2","4">>)],
     synopsis |->
         [synopsisDesc |-> PyStr(TEXTS.ML_CLIMATE), responseDate |-> PyStr(<<"2","0","2","4","-","0","2","-","0","1">>),
          awardFloor |-> PyStr(<<"1","0","0","0">>), awardCeiling |-> PyStr(<<"5","0","0","0">>)]]

\* an NSF award with every documented key
NSF_AWARD ==
    [id |-> PyStr(<<"2","4","0","1","2","3","4">>), title |-> PyStr(TITLES.A), agency |-> PyStr(<<"N","S","F">>),
     startDate |-> PyStr(<<"0","1","/","1","5","/","2","0","2","4">>), expDate |-> PyStr(<<"2","0","2","4","-","0","2","-","0","1">>),
     fundsObligatedAmt |-> PyStr(<<"5","0","0","0">>), awardeeName |-> PyStr(<<"M","I","T">>),
     piFirstName |-> PyStr(<<"A","d","a">>), piLastName |-> PyStr(<<"L","e","e">>),
     abstractText |-> PyStr(TEXTS.ML_CLIMATE),
     fundProgramName |-> PyStr(<<"A","I"," ","I","n","s","t","i","t","u","t","e","s">>)]

\* search hits and flat records: any subset of the documented keys
GrantsHitPayloads == {Restrict(GRANTS_HIT, ks) : ks \in SUBSET DOMAIN GRANTS_HIT}

\* fetch-by-id details: an opportunity object, a synopsis object, or both
GrantsDetailPayloads ==
    LET Opportunities ==
            {Restrict(GRANTS_DETAIL.opportunity, ks) :
                 ks \in SUBSET DOMAIN GRANTS_DETAIL.opportunity}
        Synopses ==
            {Restrict(GRANTS_DETAIL.synopsis, ks) :
                 ks \in SUBSET DOMAIN GRANTS_DETAIL.synopsis}
    IN  {[opportunity |-> PyDict(o)] : o \in Opportunities}
        \cup {[synopsis |-> PyDict(s)] : s \in Synopses}
        \cup {[opportunity |-> PyDict(o), synopsis |-> PyDict(s)] :
                  o \in Opportunities, s \in Synopses}

NsfAwardPayloads == {Restrict(NSF_AWARD, ks) : ks \in SUBSET DOMAIN NSF_AWARD}

\* date values of a payload: date strings, "TBD", a timestamp in range and
\* two beyond it
DateValues ==
    {PyStr(<<"2","0","2","4","-","0","1","-","1","5">>), PyStr(<<"T","B","D">>), PyLong(<<"1","7","0","5","3","1","6","4","0","0","0","0","0">>),
     PyLong(<<"1","0","0","0","0","0","0","0","0","0","0","0","0","0","0","0","0","0","0">>), PyLong(<<"1","0","0","0","0","0","0","0","0","0","0","0","0","0","0","0","0","0","0","0","0">>)}
\* amounts of a payload: a number, a string of digits, "N/A"
AmountValues == {PyInt(1000), PyStr(<<"5","0","0","0">>), PyStr(<<"N","/","A">>)}

\* Grants.gov hits whose dates and amounts may be malformed
GrantsParsedPayloads ==
    {[id |-> PyInt(101), title |-> PyStr(TITLES.A)] @@ d :
         d \in PayloadsOf([openDate |-> DateValues, postDate |-> {PyStr(<<"2","0","2","4","-","0","2","-","0","1">>)},
                           closeDate |-> DateValues, awardFloor |-> AmountValues,
                           fundingFloor |-> {PyInt(2000)},
                           awardCeiling |-> {PyInt(5000), PyStr(<<"N","/","A">>)}])}

\* NSF awards whose dates and amount may be malformed
NsfParsedPayloads ==
    {[id |-> PyStr(<<"2","4","0","1","2","3","4">>), title |-> PyStr(TITLES.A)] @@ d :
         d \in PayloadsOf([startDate |-> DateValues, expDate |-> DateValues,
                           fundsObligatedAmt |-> AmountValues])}

\* Grants.gov hits that carry several candidate keys of one target field,
\* with a value, an empty value or null
GrantsCandidatePayloads ==
    PayloadsOf([number |-> {PyStr(<<"N","S","F","-","2","4","-","1">>), PyStr(<<>>), PyNone},
                opportunityNumber |-> {PyStr(<<"N","S","F","-","2","4","-","2">>), PyStr(<<>>)},
                oppId |-> {PyInt(102), PyStr(<<>>)},
                id |-> {PyInt(101)}])
    \cup PayloadsOf([title |-> {PyStr(TITLES.A), PyStr(<<>>), PyNone},
                     opportunityTitle |-> {PyStr(TITLES.B), PyStr(<<>>)},
                     agency |-> {PyStr(<<"N","S","F">>), PyStr(<<>>), PyNone},
                     agencyName |-> {PyStr(<<"N","I","H">>), PyStr(<<>>)}])
    \cup PayloadsOf([openDate |-> {PyStr(<<"2","0","2","4","-","0","1","-","1","5">>), PyStr(<<>>), PyNone},
                     postDate |-> {PyStr(<<"2","0","2","4","-","0","2","-","0","1">>), PyStr(<<>>)},
                     postingDate |-> {PyStr(<<"2","0","2","4","-","0","3","-","0","1">>)}])
    \cup PayloadsOf([closeDate |-> {PyStr(<<"2","0","2","4","-","0","1","-","1","5">>), PyStr(<<>>), PyNone},
                     responseDate |-> {PyStr(<<"2","0","2","4","-","0","2","-","0","1">>), PyStr(<<>>)},
                     archiveDate |-> {PyStr(<<"2","0","2","4","-","0","3","-","0","1">>)}])
    \cup PayloadsOf([awardFloor |-> {PyInt(1000), PyInt(0), PyNone},
                     fundingFloor |-> {PyInt(2000), PyInt(0)},
                     awardCeiling |-> {PyInt(5000), PyInt(0), PyNone},
                     fundingCeiling |-> {PyInt(6000), PyInt(0)}])

\* the payloads given to the connector of src
ExtractPayloads(src) ==
    IF src = SOURCE_NSF THEN NsfAwardPayloads \cup NsfParsedPayloads
    ELSE GrantsHitPayloads \cup GrantsDetailPayloads \cup GrantsParsedPayloads
         \cup GrantsCandidatePayloads

\* ingestor.extract_fields(raw_data) of the connector of src
ExtractFieldsCall(src, raw_data) ==
    /\ extract_outcome = NoOutcome
    /\ source' = src
    /\ extract_raw' = PyDict(raw_data)
    /\ extract_outcome' = ExtractFields(src, raw_data)
    /\ UNCHANGED <<requests, responses, sleeps, search_vars, fetch_vars, tag_vars,
                   pipe_vars, flat_records>>

ExtractNext ==
    \E src \in Sources : \E raw_data \in ExtractPayloads(src) :
        ExtractFieldsCall(src, raw_data)

Init == SearchInit /\ FetchInit /\ TagInit /\ PipeInit /\ ExtractInit

SpecSearch == Init /\ [][SearchNext]_vars
\* The loop is sequential code, every request carries a timeout and the
\* delay is finite: a step that can be taken is taken.
SpecSearchFair == Init /\ [][SearchNext]_vars /\ WF_vars(SearchNext)
SpecFetch == Init /\ [][FetchNext]_vars
SpecTag == Init /\ [][TagNext]_vars
SpecPipeline == Init /\ [][PipelineNext]_vars
SpecExtract == Init /\ [][ExtractNext]_vars

\* ------------------------------------------------- properties of tagging
\* the call recorded in the tagging variables is an apply_tags call that
\* returned
ApplyTagsReturned == embed_tagger = PyNone /\ tags.kind = "returned"

\* the tags the strategies emitted, in the order apply_tags collects them
Emitted == rule_tags \o embed_tags

InUnitInterval(list) ==
    \A i \in DOMAIN list :
        /\ 0 <= list[i].confidence.n
        /\ list[i].confidence.n <= list[i].confidence.d

\* C1: apply_tags returns each tag path at most once, every emitted path is
\* returned, and the confidence returned for a path is the maximum of the
\* confidences of the tags with that path that the rule-based strategy and,
\* when enabled, the embedding strategy emitted.
C1_HighestConfidencePerPath ==
    ApplyTagsReturned =>
        LET out == tags.payload
        IN  /\ \A i, j \in DOMAIN out : out[i].tag = out[j].tag => i = j
            /\ \A e \in DOMAIN Emitted : \E i \in DOMAIN out : out[i].tag = Emitted[e].tag
            /\ \A i \in DOMAIN out :
                   /\ \E e \in DOMAIN Emitted : Emitted[e] = out[i]
                   /\ \A e \in DOMAIN Emitted :
                          Emitted[e].tag = out[i].tag
                              => Leq(Emitted[e].confidence, out[i].confidence)

\* apply_tags returned after both strategies emitted the same path, the
\* embedding strategy (collected second) with the higher confidence
C1_Witness ==
    /\ ApplyTagsReturned
    /\ use_embeddings
    /\ \E i \in DOMAIN rule_tags, j \in DOMAIN embed_tags :
           /\ rule_tags[i].tag = embed_tags[j].tag
           /\ ~Leq(embed_tags[j].confidence, rule_tags[i].confidence)

\* C2: every SemanticTag a tagger produced, and so every tag apply_tags
\* returns, has 0.0 <= confidence <= 1.0, whatever the ontology, the text,
\* the threshold and the similarities.
C2_ConfidenceInUnitInterval ==
    /\ InUnitInterval(rule_tags)
    /\ InUnitInterval(embed_tags)
    /\ tags.kind = "returned" => InUnitInterval(tags.payload)

\* both strategies produced a tag at the upper end: a rule-based tag whose
\* every term is in the title, and an embedding tag of a similarity that
\* rounds to 1.0
C2_Witness ==
    /\ \E i \in DOMAIN rule_tags : rule_tags[i].confidence.n = rule_tags[i].confidence.d
    /\ \E j \in DOMAIN embed_tags : embed_tags[j].confidence.n = embed_tags[j].confidence.d

\* ---------------------------------------------------- properties of search
RECURSIVE Flatten(_)
Flatten(pages) ==
    IF pages = <<>> THEN <<>>
    ELSE (IF Head(pages).ok THEN Head(pages).page ELSE <<>>) \o Flatten(Tail(pages))

\* every item the upstream served to this search, in the order served
Served == Flatten(responses)

NoRequestFailed == \A i \in 1..Len(responses) : responses[i].ok

\* no answer held fewer items than were asked for and were there to serve
NoPageCutShort ==
    \A i \in 1..Len(responses) :
        responses[i].ok =>
            Len(responses[i].page) >= Len(FullPage(source, avail, requests[i].offset, requests[i].rows))

EmptyPageReceived ==
    \E i \in 1..Len(responses) : responses[i].ok /\ responses[i].page = <<>>

\* C3 as claimed: search returns at most max_results payloads whatever the
\* upstream does, and exactly max_results (the first max_results served)
\* whenever the upstream holds at least max_results items and no request
\* fails.
C3_AsClaimed ==
    (search_pc = "done" /\ max_results >= 0) =>
        /\ Len(returned) <= max_results
        /\ (avail >= max_results /\ NoRequestFailed) =>
               /\ Len(returned) = max_results
               /\ returned = Prefix(Served, max_results)

\* C3 amended: search returns at most max_results payloads whatever the
\* upstream does, and exactly max_results (the first max_results served)
\* whenever the upstream holds at least max_results items, no request fails
\* and no page is served short of the rows asked for.
C3_SearchReturnsMaxResults ==
    (search_pc = "done" /\ max_results >= 0) =>
        /\ Len(returned) <= max_results
        /\ (avail >= max_results /\ NoRequestFailed /\ NoPageCutShort) =>
               /\ Len(returned) = max_results
               /\ returned = Prefix(Served, max_results)

\* a search for more than one page of results, all served in full, whose
\* last page was truncated
C3_Witness ==
    /\ search_pc = "done"
    /\ max_results > PAGE_CAP
    /\ avail >= max_results
    /\ NoRequestFailed /\ NoPageCutShort
    /\ Len(results) > max_results
    /\ Len(returned) = max_results

\* C4: against an upstream that serves full pages, max_results = 10 issues
\* exactly one page request and returns exactly 10 items, max_results = 30
\* issues exactly two page requests; and in every run a page request is
\* issued only while fewer than max_results items are collected and no
\* empty page has been received.
C4_PageRequestCount ==
    /\ [](( /\ search_pc = "done"
            /\ avail >= max_results /\ NoRequestFailed /\ NoPageCutShort ) =>
            /\ max_results = 10 => (Len(requests) = 1 /\ Len(returned) = 10)
            /\ max_results = 30 => Len(requests) = 2)
    /\ [][Len(requests') > Len(requests) =>
            (Len(results) < max_results /\ ~EmptyPageReceived)]_vars

C4_Witness ==
    /\ search_pc = "done"
    /\ max_results = 30 /\ avail >= 50
    /\ NoRequestFailed /\ NoPageCutShort
    /\ Len(requests) = 2
    /\ requests[2].rows = PAGE_CAP

\* ------------------------------------------------ properties of fetch_by_url
RequestsTo(e) == {i \in 1..Len(requests) : requests[i].endpoint = e}
Answered(e) == {i \in RequestsTo(e) : i <= Len(responses)}
FailedAt(e) == {i \in Answered(e) : ~responses[i].ok}
FetchRan == fetch_pc # "idle"
FetchDone == fetch_pc = "done"

\* the delays slept so far grow linearly: RATE_LIMIT_DELAY x attempt number
LinearBackoff == \A i \in 1..Len(sleeps) : sleeps[i] = RATE_LIMIT_DELAY * i

\* every failed attempt of the retry loop but the MAX_RETRIES-th was slept on
SleptAfterEachRetry(e) ==
    Len(sleeps) = Min(Cardinality(FailedAt(e)), MAX_RETRIES - 1)

\* the fetchOpportunity response that ended the direct tier held no data
DirectEndedWithoutData ==
    \E i \in Answered("fetchOpportunity") :
        /\ responses[i].ok
        /\ i = SetMax(RequestsTo("fetchOpportunity"))

\* C5 as claimed: each of the two tiers of the Grants.gov fetch retries a
\* transport failure up to MAX_RETRIES attempts with a backoff of
\* RATE_LIMIT_DELAY x attempt, the fallback starts after a transport failure
\* only once the direct tier's retries are exhausted, and no transport
\* failure reaches the caller.
C5_AsClaimed ==
    (FetchRan /\ source = SOURCE_GRANTS_GOV) =>
        /\ Cardinality(RequestsTo("fetchOpportunity")) <= MAX_RETRIES
        /\ Cardinality(RequestsTo("search2")) <= MAX_RETRIES
        /\ LinearBackoff
        /\ (RequestsTo("search2") # {} /\ ~DirectEndedWithoutData) =>
               Cardinality(FailedAt("fetchOpportunity")) = MAX_RETRIES
        /\ (FetchDone /\ FailedAt("search2") # {}) =>
               Cardinality(FailedAt("search2")) = MAX_RETRIES
        /\ fetched # Raised

\* C5 amended: the direct tier of the Grants.gov fetch retries a transport
\* failure up to MAX_RETRIES attempts with a backoff of RATE_LIMIT_DELAY x
\* attempt; the search fallback makes one attempt, with no retry and no
\* backoff; the fallback starts after a transport failure only once the
\* direct tier's retries are exhausted; no transport failure reaches the
\* caller: a failed fallback returns the error payload.
C5_DirectTierRetriesFallbackOnce ==
    (FetchRan /\ source = SOURCE_GRANTS_GOV) =>
        /\ Cardinality(RequestsTo("fetchOpportunity")) <= MAX_RETRIES
        /\ Cardinality(RequestsTo("search2")) <= 1
        /\ LinearBackoff
        /\ SleptAfterEachRetry("fetchOpportunity")
        /\ \A i \in RequestsTo("search2") : \A j \in RequestsTo("fetchOpportunity") : j < i
        /\ (RequestsTo("search2") # {} /\ ~DirectEndedWithoutData) =>
               Cardinality(FailedAt("fetchOpportunity")) = MAX_RETRIES
        /\ (FetchDone /\ FailedAt("search2") # {}) =>
               /\ fetched.kind = "returned"
               /\ Truthy(Get(fetched.payload, "error"))
        /\ fetched # Raised

\* every direct attempt and the fallback failed
C5_Witness ==
    /\ FetchDone /\ source = SOURCE_GRANTS_GOV
    /\ Cardinality(FailedAt("fetchOpportunity")) = MAX_RETRIES
    /\ sleeps = <<RATE_LIMIT_DELAY, 2 * RATE_LIMIT_DELAY>>
    /\ FailedAt("search2") # {}
    /\ fetched = Returned(FetchError(ident))

\* a response that carries a non-empty opportunity object or a non-empty title
CarriesData(inner) ==
    \/ /\ "opportunity" \in DOMAIN inner
       /\ inner.opportunity.t = "dict"
       /\ inner.opportunity.v # EmptyDict
    \/ /\ "title" \in DOMAIN inner
       /\ inner.title.t = "str"
       /\ inner.title.v # <<>>

IdEquals(hit, id) == "id" \in DOMAIN hit /\ StrOf(hit.id) = StrOf(id)

\* C6: a fetchOpportunity response that carries an opportunity object or a
\* title (a non-empty one) is returned as is and no search is made; once the
\* direct tier has yielded no such data the search endpoint is asked for the
\* numeric id as keyword, and the result is the first hit whose id equals the
\* requested id, else the first hit, else (no hits, or the search failed) an
\* error-marked payload.
C6_FallbackSelection ==
    (FetchDone /\ source = SOURCE_GRANTS_GOV /\ requests # <<>>) =>
        LET D == {i \in Answered("fetchOpportunity") :
                     responses[i].ok /\ CarriesData(responses[i].inner)}
            S == RequestsTo("search2")
        IN  /\ D # {} => (S = {} /\ \E i \in D : fetched = Returned(responses[i].inner))
            /\ D = {} =>
                 /\ Cardinality(S) = 1
                 /\ \A i \in S :
                      /\ requests[i].key = PyStr(IntToStr(ident.v))
                      /\ fetched.kind = "returned"
                      /\ LET p == fetched.payload
                             hits == responses[i].hits
                             M == {j \in 1..Len(hits) : IdEquals(hits[j], ident)}
                         IN  IF ~responses[i].ok
                             THEN Truthy(Get(p, "error"))
                             ELSE IF M # {}
                             THEN \E j \in M : p = hits[j] /\ \A k \in M : j <= k
                             ELSE IF hits # <<>> THEN p = hits[1]
                             ELSE Truthy(Get(p, "error"))

\* the search returned a hit with another id ahead of the hit with the
\* requested id, and the latter was chosen
C6_Witness ==
    /\ FetchDone /\ source = SOURCE_GRANTS_GOV
    /\ \E i \in RequestsTo("search2") :
          /\ responses[i].ok
          /\ Len(responses[i].hits) >= 2
          /\ ~IdEquals(responses[i].hits[1], ident)
          /\ IdEquals(responses[i].hits[2], ident)
          /\ fetched = Returned(responses[i].hits[2])

\* C7: the NSF fetch makes at most MAX_RETRIES attempts; a response with a
\* non-empty award list returns its first award; a response with an empty
\* list returns the empty payload at once, with no retry and no error
\* marker; a transport failure is retried after a backoff of
\* RATE_LIMIT_DELAY x attempt and on the last attempt raised to the caller.
C7_NsfFetch ==
    (FetchRan /\ source = SOURCE_NSF) =>
        /\ Len(requests) <= MAX_RETRIES
        /\ \A i \in 1..Len(responses) : responses[i].ok => i = Len(requests)
        /\ LinearBackoff
        /\ SleptAfterEachRetry("awards")
        /\ (FetchDone /\ responses # <<>>) =>
               LET last == responses[Len(responses)]
               IN  /\ Len(responses) = Len(requests)
                   /\ (last.ok /\ last.awards # <<>>) => fetched = Returned(last.awards[1])
                   /\ (last.ok /\ last.awards = <<>>) => fetched = Returned(EmptyDict)
                   /\ ~last.ok => (Len(requests) = MAX_RETRIES /\ fetched = Raised)
        /\ fetched = Raised => Cardinality(FailedAt("awards")) = MAX_RETRIES

\* all MAX_RETRIES attempts failed and the failure was raised
C7_Witness ==
    /\ FetchDone /\ source = SOURCE_NSF
    /\ Len(requests) = MAX_RETRIES
    /\ sleeps = <<RATE_LIMIT_DELAY, 2 * RATE_LIMIT_DELAY>>
    /\ fetched = Raised

\* no accepted URL pattern of the connector matches u
NoPatternMatches(src, u) ==
    IF src = SOURCE_NSF
    THEN NsfPattern1(u) = PyNone /\ NsfPattern2(u) = PyNone
    ELSE GrantsPattern1(u) = PyNone /\ GrantsPattern2(u) = PyNone /\ GrantsPattern3(u) = PyNone

\* the digits matched by the first pattern that matches u
FirstMatch(src, u) ==
    IF src = SOURCE_NSF
    THEN (IF NsfPattern1(u) # PyNone THEN NsfPattern1(u) ELSE NsfPattern2(u))
    ELSE (IF GrantsPattern1(u) # PyNone THEN GrantsPattern1(u)
          ELSE IF GrantsPattern2(u) # PyNone THEN GrantsPattern2(u)
          ELSE GrantsPattern3(u))

C9_IdentifierResolution ==
    FetchRan =>
        /\ fetched = Returned(ResolutionError(source, url)) => NoPatternMatches(source, url)
        /\ ~NoPatternMatches(source, url) =>
              LET D == FirstMatch(source, url).v
              IN  /\ ident = IF source = SOURCE_NSF THEN PyStr(D) ELSE PyInt(ParseInt(D))
                  /\ FetchDone => (requests # <<>> /\ requests[1].key = ident)
        /\ (source = SOURCE_GRANTS_GOV /\ url = URLS.GRANTS_DETAIL) => ident = PyInt(123456)
        \* "2345678"
        /\ (source = SOURCE_NSF /\ url = URLS.NSF_AWARD) => ident = PyStr(<<"2","3","4","5","6","7","8">>)

\* ------------------------------------------------ properties of the pipeline
\* C10: every FOA Record constructed by process_single_url or
\* process_search has a non-empty foa_id: the source-native identifier when
\* the payload carries one (what extract_fields reads from it), and a
\* generated identifier otherwise.
C10_FoaIdNonEmpty ==
    /\ \A i \in DOMAIN records : records[i].foa_id.v # <<>>
    /\ (pipe_pc = "done" /\ fetch_pc = "done" /\ processed.kind = "returned") =>
           LET native == ExtractFields(source, fetched.payload).payload.foa_id
           IN  /\ processed.payload.foa_id.v # <<>>
               /\ processed.payload.foa_id = IF native.v # <<>> THEN native ELSE GeneratedId

\* ------------------------------------------- properties of the records
\* the FOARecords the pipeline call has built so far
BuiltRecords ==
    IF pipe_pc = "done" /\ fetch_pc = "done" /\ processed.kind = "returned"
    THEN <<processed.payload>>
    ELSE records

SortedDescending(list) ==
    \A i, j \in DOMAIN list : i < j => Leq(list[j].confidence, list[i].confidence)

\* kept holds the MAX_TAGS_PER_FOA highest-confidence tags of the aggregated
\* list (all of it when it is shorter)
HighestOf(kept, aggregated) ==
    /\ Len(kept) = Min(Len(aggregated), MAX_TAGS_PER_FOA)
    /\ \A i \in DOMAIN kept : \E a \in DOMAIN aggregated : aggregated[a] = kept[i]
    /\ \A a \in DOMAIN aggregated :
           (\A i \in DOMAIN kept : kept[i].tag # aggregated[a].tag)
               => \A i \in DOMAIN kept : Leq(aggregated[a].confidence, kept[i].confidence)

\* C11: every FOARecord the pipeline builds has at most MAX_TAGS_PER_FOA
\* semantic_tags, in descending order of confidence, and they are the
\* highest-confidence tags of the list apply_tags returned for it: no tag
\* left out has a higher confidence than a tag kept.
C11_TopTagsKept ==
    /\ [](\A r \in DOMAIN BuiltRecords :
              /\ Len(BuiltRecords[r].semantic_tags) <= MAX_TAGS_PER_FOA
              /\ SortedDescending(BuiltRecords[r].semantic_tags))
    /\ [](pipe_pc = "done" /\ fetch_pc = "done" /\ processed.kind = "returned"
              => HighestOf(processed.payload.semantic_tags, tags.payload))
    /\ [][records' # records /\ records' # <<>>
              => HighestOf(records'[Len(records')].semantic_tags, tags'.payload)]_vars

\* process_search built a record from eleven aggregated tags of different
\* confidences: ten are kept, the one left out has the lowest confidence
C11_Witness ==
    /\ pipe_pc = "search" /\ records # <<>>
    /\ tags.kind = "returned" /\ Len(tags.payload) = MAX_TAGS_PER_FOA + 1
    /\ Len(records[Len(records)].semantic_tags) = MAX_TAGS_PER_FOA
    /\ \E a \in DOMAIN tags.payload :
           /\ \A i \in 1..MAX_TAGS_PER_FOA :
                  /\ records[Len(records)].semantic_tags[i].tag # tags.payload[a].tag
                  /\ ~Leq(records[Len(records)].semantic_tags[i].confidence,
                          tags.payload[a].confidence)
    /\ \E i, j \in 1..MAX_TAGS_PER_FOA :
           ~Leq(records[Len(records)].semantic_tags[i].confidence,
                records[Len(records)].semantic_tags[j].confidence)

\* --------------------------------------- properties of the rule-based tagger
\* the rule-based tagger has run on a title that is a str
RuleTaggerRan == title.t = "str" /\ tags # NoOutcome

\* the texts _compute_confidence is given
TitleLower == Lower(title.v)
CombinedText == Lower(StrOf(title) \o <<" ">> \o StrOf(description))

\* (2.0 x terms of tag i found in the title + 1.0 x terms found in the
\* combined text) / (3.0 x terms)
WeightedShare(i) ==
    LET terms == AllTerms(ontology[i])
        Found(text) == Cardinality({k \in DOMAIN terms : TermInText(Lower(terms[k]), text)})
    IN  Float(2 * Found(TitleLower) + Found(CombinedText), 3 * Len(terms))

SameValue(a, b) == Leq(a, b) /\ Leq(b, a)

\* C12: the rule-based confidence of an ontology tag is (2.0 x number of its
\* terms found in the title + 1.0 x number of its terms found in the
\* combined title+description text) / (3.0 x number of its terms), so a
\* single-term tag whose term is in the title and in the body gets 1.0;
\* each rule-based SemanticTag carries the confidence of its ontology tag.
C12_RuleConfidence ==
    RuleTaggerRan =>
        /\ \A i \in DOMAIN ontology :
               SameValue(ComputeConfidence(ontology[i], TitleLower, CombinedText),
                         WeightedShare(i))
        /\ \A r \in DOMAIN rule_tags :
               \E i \in DOMAIN ontology :
                   /\ rule_tags[r].tag = FullPath(ontology[i])
                   /\ SameValue(rule_tags[r].confidence, WeightedShare(i))

\* a tag with one term (no synonym), the term in the title and so in the
\* combined text, emitted with confidence 1.0
C12_Witness ==
    /\ RuleTaggerRan
    /\ \E i \in DOMAIN ontology, r \in DOMAIN rule_tags :
           /\ Len(AllTerms(ontology[i])) = 1
           /\ TermInText(Lower(AllTerms(ontology[i])[1]), TitleLower)
           /\ TermInText(Lower(AllTerms(ontology[i])[1]), CombinedText)
           /\ rule_tags[r].tag = FullPath(ontology[i])
           /\ rule_tags[r].confidence.n = rule_tags[r].confidence.d

\* ontology tag i passes the minimum score of 0.15
PassesMinimum(i) == Leq(Float(15, 100), WeightedShare(i))

\* C13: RuleBasedTagger.tag emits a SemanticTag for an ontology tag if and
\* only if its normalized confidence is >= 0.15, and returns the emitted
\* tags sorted by confidence descending.  With the title "AI for Climate
\* Resilience", the description "machine learning applications in climate
\* adaptation" and the tags artificial_intelligence ["machine learning"]
\* and climate_science ["climate adaptation"], both tags are emitted.
C13_EmittedIffAboveMinimum ==
    RuleTaggerRan =>
        /\ \A i \in DOMAIN ontology :
               PassesMinimum(i) <=>
                   \E r \in DOMAIN rule_tags :
                       /\ rule_tags[r].tag = FullPath(ontology[i])
                       /\ SameValue(rule_tags[r].confidence, WeightedShare(i))
        /\ Len(rule_tags) = Cardinality({i \in DOMAIN ontology : PassesMinimum(i)})
        /\ SortedDescending(rule_tags)
        /\ (/\ ontology = ONTOLOGIES.SCENARIO
            /\ title = PyStr(TEXTS.AI_CLIMATE)
            /\ description = PyStr(TEXTS.ML_CLIMATE))
               => \A i \in DOMAIN ontology :
                      \E r \in DOMAIN rule_tags : rule_tags[r].tag = FullPath(ontology[i])

\* the call of the example: each of the two tags has one of its two terms
\* in the description only, a confidence of 1/6, and is emitted
C13_Witness ==
    /\ RuleTaggerRan
    /\ ontology = ONTOLOGIES.SCENARIO
    /\ title = PyStr(TEXTS.AI_CLIMATE)
    /\ description = PyStr(TEXTS.ML_CLIMATE)
    /\ Len(rule_tags) = 2
    /\ \A r \in DOMAIN rule_tags : SameValue(rule_tags[r].confidence, Float(1, 6))

\* [A-Za-z0-9_]
IsWordChar(c) == IsDigit(c) \/ c = "_" \/ \E k \in 1..26 : c \in {LowerChars[k], UpperChars[k]}

\* the term occurs in the text at offset i (case ignored when asked)
OccursAt(term, text, i, ignorecase) ==
    /\ i + Len(term) <= Len(text)
    /\ \A k \in DOMAIN term :
           IF ignorecase THEN LowerChar(text[i + k]) = LowerChar(term[k])
           ELSE text[i + k] = term[k]

\* the term occurs as a token of its own: no word character before it and
\* none after it
StandaloneToken(term, text) ==
    \E i \in 0..Len(text) :
        /\ OccursAt(term, text, i, TRUE)
        /\ i = 0 \/ ~IsWordChar(text[i])
        /\ i + Len(term) = Len(text) \/ ~IsWordChar(text[i + Len(term) + 1])

PlainSubstring(term, text) == \E i \in 0..Len(text) : OccursAt(term, text, i, FALSE)

\* the texts the terms are looked up in
TextsLookedUp == {TitleLower, CombinedText}

EmbeddingUnavailable == embed_outcome = ImportError

\* what the pipeline makes of a raw payload when the embedding strategy is
\* not enabled
WithoutEmbeddings(raw) == ProcessRaw(source, raw, ontology, FALSE, NoEmbedding).outcome

TagCallStep == embed_tagger # PyNone /\ tag_calls' = tag_calls + 1

ItemStep == pipe_pc = "search" /\ item' = item + 1

\* the fields extract_fields gives for raw result k, or Raised
ExtractedItem(k) == ExtractFields(source, SearchHit(source, returned[k]))

\* record rec was built from raw result k
BuiltFrom(rec, k) ==
    /\ ExtractedItem(k) # Raised
    /\ \A f \in {"foa_id", "title", "agency", "source_url", "source", "eligibility",
                 "program_description", "award_range_min", "award_range_max"} :
           rec[f] = ExtractedItem(k).payload[f]

\* the j-th smallest element of a set of numbers
Nth(S, j) == CHOOSE x \in S : Cardinality({y \in S : y < x}) = j - 1

\* C17: in process_search an item whose extraction, tagging or record
\* construction fails is skipped and the loop goes on with the next item; a
\* record is appended for every other item, so the records are those of the
\* items processed without failure, in the order of the raw results, and the
\* call returns them whatever item failed.
C17_FailingItemSkipped ==
    /\ [][ItemStep =>
              LET extracted == ExtractedItem(item')
                  extraction_failed == extracted = Raised
                  tagging_failed == ~extraction_failed /\ tags' = Raised
                  constructed ==
                      FOARecord([extracted.payload EXCEPT
                                     !.open_date = FromIsoFormat(@),
                                     !.close_date = FromIsoFormat(@)]
                                @@ ("semantic_tags" :>
                                        PySliceTo(tags'.payload, MAX_TAGS_PER_FOA)))
              IN  /\ pipe_pc' = "search"
                  /\ IF extraction_failed \/ tagging_failed THEN records' = records
                     ELSE IF constructed = Raised THEN records' = records
                     ELSE records' = Append(records, constructed.payload)]_vars
    /\ [](pipe_pc = "search" =>
              \E done \in SUBSET (1..item) :
                  /\ Cardinality(done) = Len(records)
                  /\ \A j \in DOMAIN records : BuiltFrom(records[j], Nth(done, j)))
    /\ []((pipe_pc = "done" /\ fetch_pc = "idle")
              => item = Len(returned) /\ processed = Returned(records))

\* process_search returned two records for three Grants.gov hits: the
\* second hit, whose extraction raises, was skipped and the third was
\* processed after it
C17_Witness ==
    /\ pipe_pc = "done" /\ fetch_pc = "idle"
    /\ source = SOURCE_GRANTS_GOV
    /\ Len(returned) = 3
    /\ ExtractedItem(2) = Raised
    /\ processed = Returned(records)
    /\ Len(records) = 2
    /\ BuiltFrom(records[1], 1)
    /\ BuiltFrom(records[2], 3)

\* ------------------------------------------ properties of extract_fields
\* extract_fields was called on its own
ExtractRan == extract_outcome # NoOutcome

\* the keys of the Normalized Field Set
FIELD_SET ==
    {"foa_id", "title", "agency", "open_date", "close_date", "eligibility",
     "program_description", "award_range_min", "award_range_max", "source_url", "source"}

\* the source keys a connector parses as a date or an amount when they carry
\* a value, with the target fields each one feeds
ParsedKeys(src) ==
    IF src = SOURCE_NSF
    THEN [startDate |-> {"open_date"}, expDate |-> {"close_date"},
          fundsObligatedAmt |-> {"award_range_min", "award_range_max"}]
    ELSE [openDate |-> {"open_date"}, closeDate |-> {"close_date"},
          awardFloor |-> {"award_range_min"}, awardCeiling |-> {"award_range_max"}]

\* value is a date no calendar date can be read from, or an amount that is
\* no number
Malformed(key, value) ==
    IF key \in {"openDate", "closeDate", "startDate", "expDate"}
    THEN value \in {PyStr(<<"T","B","D">>), PyLong(<<"1","0","0","0","0","0","0","0","0","0","0","0","0","0","0","0","0","0","0">>),
                    PyLong(<<"1","0","0","0","0","0","0","0","0","0","0","0","0","0","0","0","0","0","0","0","0">>)}
    ELSE value = PyStr(<<"N","/","A">>)

\* C18: a malformed date or a non-numeric amount in a raw payload makes
\* extract_fields set only the target field it feeds to None: nothing is
\* raised, the mapping is returned, and every other field is the same as for
\* the payload without the bad key.
C18_ParseFailureDegrades ==
    ExtractRan =>
        \A key \in DOMAIN ParsedKeys(source) \cap DOMAIN extract_raw.v :
            Malformed(key, extract_raw.v[key]) =>
                /\ extract_outcome.kind = "returned"
                /\ \A f \in ParsedKeys(source)[key] : extract_outcome.payload[f] = PyNone
                /\ \E missing \in {ExtractFields(source,
                                       Restrict(extract_raw.v, DOMAIN extract_raw.v \ {key}))} :
                       /\ missing.kind = "returned"
                       /\ \A f \in FIELD_SET \ ParsedKeys(source)[key] :
                              extract_outcome.payload[f] = missing.payload[f]

\* C19: extract_fields of either connector, given a search hit or a
\* fetch-by-id detail with any subset of the documented keys, performs no
\* I/O, raises nothing and returns a mapping whose keys are exactly those of
\* the Normalized Field Set.
C19_ExtractFieldsTotal ==
    (ExtractRan /\ extract_raw.v \in (IF source = SOURCE_NSF THEN NsfAwardPayloads
                                      ELSE GrantsHitPayloads \cup GrantsDetailPayloads))
        => /\ requests = <<>> /\ sleeps = <<>>
           /\ extract_outcome.kind = "returned"
           /\ DOMAIN extract_outcome.payload = FIELD_SET

\* the candidate source keys of the target fields of Grants.gov, in order
CANDIDATES ==
    [foa_id |-> <<"number", "opportunityNumber", "oppId", "id">>,
     title |-> <<"title", "opportunityTitle">>,
     agency |-> <<"agency", "agencyName">>,
     open_date |-> <<"openDate", "postDate", "postingDate">>,
     close_date |-> <<"closeDate", "responseDate", "archiveDate">>,
     award_range_min |-> <<"awardFloor", "fundingFloor">>,
     award_range_max |-> <<"awardCeiling", "fundingCeiling">>]

\* the positions of the candidate keys the payload carries
Present(d, keys) == {i \in DOMAIN keys : keys[i] \in DOMAIN d}

\* the value of the first candidate key the payload carries
FirstPresent(d, keys) ==
    d[keys[CHOOSE i \in Present(d, keys) : \A j \in Present(d, keys) : i <= j]]

\* a source value as the target field f holds it: the text of an
\* identifier, the ISO date of a date string, the float of a number
AsField(f, value) ==
    CASE f = "foa_id" -> PyStr(StrOf(value))
      [] f \in {"title", "agency"} -> value
      [] f \in {"open_date", "close_date"} -> ParseDate(value)
      [] f \in {"award_range_min", "award_range_max"} ->
             IF value.t = "int" THEN PyFloat(value.v) ELSE PyNone

\* C20: in extract_fields of Grants.gov every target field with several
\* candidate source keys takes the value of the first candidate key, in the
\* fixed order, that is present in the payload.
C20_FirstPresentCandidateWins ==
    (/\ ExtractRan /\ source = SOURCE_GRANTS_GOV
     /\ extract_raw.v \in GrantsCandidatePayloads)
        => /\ extract_outcome.kind = "returned"
           /\ \A f \in DOMAIN CANDIDATES :
                  Present(extract_raw.v, CANDIDATES[f]) # {}
                      => extract_outcome.payload[f]
                             = AsField(f, FirstPresent(extract_raw.v, CANDIDATES[f]))

\* ----------------------------------------- properties of paginated search
\* the step issues a page request
PageRequestStep == Len(requests') > Len(requests)

\* C21: paginated search is sequential and rate-limited: at most one page
\* request is in flight, and page request n+1 is issued only after the
\* response to request n was received and after one delay of
\* RATE_LIMIT_DELAY for each of the n requests before it, so consecutive page
\* requests are separated by exactly one delay.
C21_SequentialRateLimited ==
    /\ [](Len(requests) - Len(responses) \in {0, 1})
    /\ [](\A i \in DOMAIN sleeps : sleeps[i] = RATE_LIMIT_DELAY)
    /\ [][PageRequestStep =>
              /\ Len(requests') = Len(requests) + 1
              /\ Len(responses) = Len(requests)
              /\ Len(sleeps) = Len(requests)]_vars

\* the third page request of a search is in flight, two responses and two
\* delays behind it
C21_Witness ==
    /\ search_pc = "await"
    /\ Len(requests) = 3
    /\ Len(responses) = 2
    /\ sleeps = <<RATE_LIMIT_DELAY, RATE_LIMIT_DELAY>>

\* ----------------------------------------------- properties of the export
\* the records given to export_csv
Exported == IF fetch_pc = "done" THEN <<processed.payload>> ELSE processed.payload

\* C22: round trip: a Normalized Field Set of either connector wrapped into
\* an FOARecord, flattened by to_flat_dict and read back (the tag column
\* split at "; " into its entries) keeps foa_id, title, agency and the
\* number of tags.
C22_FlatRoundTrip ==
    flat_records # <<>> =>
        /\ Len(flat_records) = Len(Exported)
        /\ \A i \in DOMAIN flat_records :
               \E back \in {Reparse(flat_records[i])} :
                   /\ back.foa_id = Exported[i].foa_id
                   /\ back.title = Exported[i].title
                   /\ back.agency = Exported[i].agency
                   /\ Len(back.semantic_tags) = Len(Exported[i].semantic_tags)

\* the two records of a search were flattened, the first with fewer than
\* ten tags and the second with the ten tags it keeps
C22_Witness ==
    /\ Len(flat_records) = 2
    /\ Len(Exported[1].semantic_tags) \in 1..(MAX_TAGS_PER_FOA - 1)
    /\ Len(Exported[2].semantic_tags) = MAX_TAGS_PER_FOA
    /\ Len(Reparse(flat_records[2]).semantic_tags) = MAX_TAGS_PER_FOA

\* --------------------------------- properties of the NSF field set
\* the amount an NSF award reports: the number of fundsObligatedAmt, none
\* when the key is missing, empty, zero or no number
ReportedAmount(award) ==
    IF "fundsObligatedAmt" \notin DOMAIN award THEN PyNone
    ELSE LET amt == award.fundsObligatedAmt
         IN  IF amt.t = "int" /\ amt.v # 0 THEN PyFloat(amt.v)
             ELSE IF amt.t = "str" /\ amt.v # <<>> /\ \A i \in DOMAIN amt.v : IsDigit(amt.v[i])
                  THEN PyFloat(ParseInt(amt.v))
             ELSE PyNone

\* C23: every field set the NSF connector produces has award_range_min equal
\* to award_range_max: both the single reported amount, or both None.
C23_NsfSingleAmount ==
    (ExtractRan /\ source = SOURCE_NSF) =>
        /\ extract_outcome.kind = "returned"
        /\ extract_outcome.payload.award_range_min = extract_outcome.payload.award_range_max
        /\ extract_outcome.payload.award_range_max = ReportedAmount(extract_raw.v)

\* an NSF award that reports 5000 was extracted: both ends of the range are
\* 5000.0
C23_Witness ==
    /\ ExtractRan /\ source = SOURCE_NSF
    /\ "fundsObligatedAmt" \in DOMAIN extract_raw.v
    /\ extract_raw.v.fundsObligatedAmt = PyStr(<<"5","0","0","0">>)
    /\ extract_outcome.kind = "returned"
    /\ extract_outcome.payload.award_range_min = PyFloat(5000)
    /\ extract_outcome.payload.award_range_max = PyFloat(5000)

\* ------------------------------------------ properties of the direct tier
\* the fetchOpportunity responses that were received and carried no data
DataLessAt ==
    {i \in Answered("fetchOpportunity") :
        responses[i].ok /\ ~CarriesData(responses[i].inner)}

\* this step receives a fetchOpportunity response that carries no data
DataLessResponseStep ==
    /\ source = SOURCE_GRANTS_GOV /\ fetch_pc = "await"
    /\ Len(responses') = Len(responses) + 1
    /\ responses'[Len(responses')].ok
    /\ ~CarriesData(responses'[Len(responses')].inner)

\* C24: in the direct tier of the Grants.gov fetch a received response that
\* carries neither an opportunity object nor a title ends the retry loop at
\* once, on the first attempt as on any other: no fetchOpportunity request
\* follows it, the next request is the search fallback, and the attempt
\* counter moves only on a transport failure, so that there is at most one
\* more direct request than there were failed ones.
C24_DataLessResponseEndsDirectTier ==
    /\ []((FetchRan /\ source = SOURCE_GRANTS_GOV) =>
            /\ \A i \in DataLessAt :
                 /\ \A j \in RequestsTo("fetchOpportunity") : j <= i
                 /\ i < Len(requests) => requests[i + 1].endpoint = "search2"
                 /\ fetch_pc \in {"fallback", "fallback_await", "done"}
            /\ attempt = Min(Cardinality(FailedAt("fetchOpportunity")), MAX_RETRIES - 1)
            /\ Cardinality(RequestsTo("fetchOpportunity")) <=
                  Cardinality(FailedAt("fetchOpportunity")) + 1)
    /\ [][DataLessResponseStep =>
            /\ fetch_pc' = "fallback"
            /\ attempt' = attempt
            /\ sleeps' = sleeps
            /\ fetched' = fetched]_vars

\* the first direct attempt was answered without data and the search
\* fallback was asked next, with no second direct attempt
C24_Witness ==
    /\ source = SOURCE_GRANTS_GOV /\ fetch_pc = "fallback_await"
    /\ attempt = 0 /\ sleeps = <<>>
    /\ 1 \in DataLessAt
    /\ Len(requests) = 2
    /\ requests[2].endpoint = "search2"

\* ------------------------------------------ properties of the page offsets
SearchRan == search_pc # "idle"

\* the first offset of the connector: NSF counts from 1, Grants.gov from 0
FirstOffset == IF source = SOURCE_NSF THEN 1 ELSE 0

\* C25: with p = min(max_results, PAGE_CAP), the i-th page request of a
\* search asks for p rows at offset 1 + (i-1)p on NSF and (i-1)p on
\* Grants.gov: the page size is the same in every request, and the offset
\* advances by p after every non-empty page, however many items the page
\* held.
C25_OffsetsAdvanceByPageSize ==
    /\ [](SearchRan =>
            \A i \in 1..Len(requests) :
                /\ requests[i].rows = Min(max_results, PAGE_CAP)
                /\ requests[i].offset = FirstOffset + (i - 1) * Min(max_results, PAGE_CAP))
    /\ [][(search_pc = "await" /\ Len(responses') > Len(responses)
             /\ responses'[Len(responses')].ok
             /\ responses'[Len(responses')].page # <<>>) =>
              offset' = offset + Min(max_results, PAGE_CAP)]_vars

\* the first page of an NSF search came one item short of the rows asked
\* for, and the second request asked for the offset 1 + p all the same
C25_Witness ==
    /\ source = SOURCE_NSF
    /\ Len(requests) = 2
    /\ Len(responses[1].page) = requests[1].rows - 1
    /\ requests[1].offset = 1
    /\ requests[2].offset = 1 + PAGE_CAP
    /\ requests[2].rows = PAGE_CAP

\* --------------------------------------- properties of search termination
\* this step receives the answer to a page request, or its failure
PageAnswerStep == search_pc = "await" /\ Len(responses') > Len(responses)

\* C26: search of either connector terminates whatever the upstream does
\* and whatever max_results is: every iteration either ends the loop (an
\* empty page, a failed request) or adds at least one item, so no more than
\* max_results page requests are issued; with max_results <= 0 no request
\* is issued and the empty list is returned.
C26_SearchTerminates ==
    /\ [](SearchRan => Len(requests) <= Max(max_results, 0))
    /\ []((search_pc = "done" /\ max_results <= 0) => returned = <<>>)
    /\ [][PageAnswerStep =>
            \/ search_pc' = "return"
            \/ (Len(results') >= Len(results) + 1 /\ search_pc' = "sleep")]_vars
    /\ (SearchRan ~> (search_pc = "done"))

\* a search for three results that was served one item a page returned
\* after three page requests
C26_Witness ==
    /\ search_pc = "done"
    /\ max_results = 3
    /\ Len(requests) = 3
    /\ \A i \in 1..3 : responses[i].ok /\ Len(responses[i].page) = 1
    /\ Len(returned) = 3

\* ----------------------------------- properties of a failed page request
\* this step sees the pending page request fail
PageFailureStep ==
    /\ search_pc = "await"
    /\ Len(responses') > Len(responses)
    /\ ~responses'[Len(responses')].ok

\* C27: a transport failure during search is neither retried nor raised:
\* the failed page request is the last request of the search, and search
\* returns the items of the pages received before it, cut to max_results;
\* that is the empty list when the first request fails.
C27_FailedPageEndsSearch ==
    /\ [](SearchRan =>
            /\ \A i \in 1..Len(responses) : ~responses[i].ok => i = Len(requests)
            /\ (search_pc = "done" /\ ~NoRequestFailed) =>
                   /\ returned = Prefix(Served, max_results)
                   /\ ~responses[1].ok => returned = <<>>)
    /\ [][PageFailureStep =>
            /\ search_pc' = "return"
            /\ results' = results
            /\ requests' = requests]_vars

\* the second page request failed and the search returned the first page
C27_Witness ==
    /\ search_pc = "done"
    /\ Len(requests) = 2
    /\ responses[1].ok /\ responses[1].page # <<>>
    /\ ~responses[2].ok
    /\ returned = responses[1].page

\* ------------------------------------ properties of process_single_url
\* process_single_url goes on from the fetch to its end
SingleUrlStep == pipe_pc = "single" /\ pipe_pc' = "done"

\* the payload fetch_by_url returned is empty or carries an error marker
EmptyOrErrorMarked ==
    /\ fetched.kind = "returned"
    /\ (DOMAIN fetched.payload = {} \/ "error" \in DOMAIN fetched.payload)

\* C28: process_single_url returns a record only when fetch_by_url returned
\* a non-empty payload without an error marker; on an error-marked payload
\* and on an empty one (an NSF id that no award matches) it raises, and
\* nothing of the extraction and the tagging has run: no title was set, no
\* tagger was called, apply_tags has no outcome.
C28_NoRecordWithoutPayload ==
    [][SingleUrlStep =>
         /\ processed'.kind = "returned" =>
                (fetched.kind = "returned" /\ ~EmptyOrErrorMarked)
         /\ EmptyOrErrorMarked =>
                /\ processed' = Raised
                /\ title' = PyNone /\ description' = PyNone
                /\ rule_tags' = <<>> /\ embed_tags' = <<>>
                /\ tags' = NoOutcome /\ embed_outcome' = NoOutcome]_vars

\* the NSF fetch found no award for the id, returned the empty payload, and
\* process_single_url raised with no tagging done
C28_Witness ==
    /\ pipe_pc = "done" /\ fetch_pc = "done"
    /\ source = SOURCE_NSF
    /\ fetched = Returned(EmptyDict)
    /\ processed = Raised
    /\ tags = NoOutcome

\* ------------------------- the state invariant of the EmbeddingTagger
\* the instance holds the loaded model and one reference embedding per tag
\* path, the paths being those of the ontology's tags in its order
FullyInitialized(t) ==
    /\ t.model # PyNone
    /\ t.reference_embeddings # PyNone
    /\ DOMAIN t.tag_paths = DOMAIN t.ontology
    /\ DOMAIN t.reference_embeddings.v = DOMAIN t.tag_paths
    /\ \A i \in DOMAIN t.ontology :
          t.tag_paths[i] = Join(<<"/">>, <<t.ontology[i].category, t.ontology[i].name>>)

\* C29: over any sequence of tag() calls on an EmbeddingTagger, failed
\* initializations included, _initialized is true only when the model is
\* loaded and reference_embeddings holds one embedding per entry of
\* tag_paths, one per ontology tag in ontology order; a call whose
\* initialization fails raises and leaves _initialized false, and a call on
\* an instance that is not initialized returns tags only after it has
\* initialized the instance in full.
C29_InitializedMeansComplete ==
    /\ []((embed_tagger # PyNone /\ embed_tagger.initialized)
              => FullyInitialized(embed_tagger))
    /\ [][(TagCallStep /\ ~embed_tagger.initialized) =>
              /\ tags'.kind = "returned" =>
                     (embed_tagger'.initialized /\ FullyInitialized(embed_tagger'))
              /\ ~embed_tagger'.initialized => tags'.kind = "raised"
              /\ embed_tagger'.initialized \/ embed_tagger'.reference_embeddings = PyNone]_vars

\* a tag() call loaded the model and set the tag paths, failed to encode
\* the reference texts and raised: the instance is not initialized
C29_Witness ==
    /\ embed_tagger # PyNone
    /\ tag_calls >= 1
    /\ ~embed_tagger.initialized
    /\ embed_tagger.model # PyNone
    /\ embed_tagger.tag_paths # <<>>
    /\ embed_tagger.reference_embeddings = PyNone
    /\ tags.kind = "raised"

\* ------------------------------------ properties of the per-term score
\* the terms of ontology tag i that match the title, the combined text
TermsInTitle(i) ==
    {k \in DOMAIN AllTerms(ontology[i]) :
        TermInText(Lower(AllTerms(ontology[i])[k]), TitleLower)}
TermsInCombined(i) ==
    {k \in DOMAIN AllTerms(ontology[i]) :
        TermInText(Lower(AllTerms(ontology[i])[k]), CombinedText)}

\* the score of tag i when each term counts 3 (in the title, and so in the
\* combined text), 1 (in the combined text only) or 0
ThreeOneZero(i) ==
    Float(3 * Cardinality(TermsInTitle(i))
            + Cardinality(TermsInCombined(i) \ TermsInTitle(i)),
          3 * Len(AllTerms(ontology[i])))

\* C30: in the rule-based tagger a term that matches the title matches the
\* combined title+description text too, under the word-boundary rule as
\* under the substring rule, so every term adds 0, 1 or 3 to the raw score
\* of its tag and never 2: the confidence of every emitted tag is
\* (3 x terms in the title + 1 x terms in the combined text only) /
\* (3 x terms), which for a tag of one term is 1/3 or 1.
C30_TermScoreNeverTwo ==
    RuleTaggerRan =>
        /\ \A i \in DOMAIN ontology : TermsInTitle(i) \subseteq TermsInCombined(i)
        /\ \A r \in DOMAIN rule_tags :
               \E i \in DOMAIN ontology :
                   /\ rule_tags[r].tag = FullPath(ontology[i])
                   /\ SameValue(rule_tags[r].confidence, ThreeOneZero(i))
                   /\ Len(AllTerms(ontology[i])) = 1 =>
                          \/ SameValue(rule_tags[r].confidence, Float(1, 3))
                          \/ SameValue(rule_tags[r].confidence, Float(1, 1))

\* the title "Research on AI" ends with the token the short term "ai"
\* matches; in the combined text a space and the description follow it, the
\* term matches there too, and the tag is emitted with confidence 1.0
C30_Witness ==
    /\ RuleTaggerRan
    /\ ontology = ONTOLOGIES.SHORT
    /\ title = PyStr(TEXTS.AI_RESEARCH)
    /\ description = PyStr(TEXTS.ML_CLIMATE)
    /\ 1 \in TermsInTitle(1) /\ 1 \in TermsInCombined(1)
    /\ ~SearchWord(Lower(TEXTS.ML_CLIMATE), <<"a", "i">>)
    /\ \E r \in DOMAIN rule_tags :
           /\ rule_tags[r].tag = FullPath(ontology[1])
           /\ rule_tags[r].confidence.n = rule_tags[r].confidence.d

====
